---- MODULE Spec2Model ----
(***************************************************************************)
(* Uplift search of lightautoml/addons/uplift/base.py.                     *)
(*                                                                         *)
(* AutoUpliftTX, the staged candidate search.  A behaviour of Spec is one  *)
(* call of AutoUpliftTX.fit: the generator                                 *)
(* _generate_stage_baselearner_candidates yields (stage, candidate)        *)
(* submissions, _evaluate trains each of them and appends a record to      *)
(* _trained_stage_baselearners, the timer is asked after each training     *)
(* event, then _calculate_ml_metric fills _metalearner_metrics and         *)
(* _set_best_metalearner selects and materialises the best strategy.       *)
(* SpecApi adds the public calls predict and create_best_metalearner       *)
(* around fit and draws the constructor arguments baselearners and         *)
(* metalearners.                                                           *)
(*                                                                         *)
(* AutoUplift, the greedy search: SpecGreedy is one call of AutoUplift.fit.*)
(***************************************************************************)
EXTENDS Integers, Sequences, FiniteSets, TLC

VARIABLES
    baselearners,         \* AutoUpliftTX.baselearners: the constructor argument (None, a list or a dict)
    metalearners,         \* AutoUpliftTX.metalearners
    stage_baselearners,   \* result of _set_stage_baselearners: dict stage full name -> candidates, in key order
    timeout,              \* BaseAutoUplift.timeout: NoTimeout, or a number of seconds
    increasing_metric,    \* BaseAutoUplift.increasing_metric
    data,                 \* the dataset handed to fit (index into a family of datasets)
    caller_train,         \* the train split fit hands to every _evaluate call
    caller_roles,         \* the roles dict the caller handed to fit
    pc,                   \* position of fit: "train", "metric", "best", "done", "error"
    error,                \* name of the exception that ended fit, "" when none
    gen_pc,               \* position of the generator: "l1", "l2", "drain", "end"
    round,                \* index of the current row of zip_longest (bls_level_1)
    l1idx,                \* index of the current level-1 stage within the row
    pool_iter_levels,     \* pool_iter_levels[2]: pending (stage_name_l2, bl_l1, iterator)
    first_run,            \* generator local first_run
    n_runs,               \* generator local n_runs
    l2_left,              \* iterations left of "for _ in range(min(n_stage_iters, _n_run_l2))"
    last_stage_info,      \* the stage_info most recently handed to _evaluate, <<>> before the first
    last_fit_predict,     \* the arguments of the most recent bl.fit_predict call, <<>> before the first
    warned,               \* fit has logged "Time of training exceeds 'timeout'"
    _trained_stage_baselearners,  \* the cache: dict stage full name -> list of TrainedStageBaseLearner, in key order
    _metalearner_metrics, \* the score table: dict (ml name, sbls) -> metric, in insertion order
    _best_metalearner,    \* the fitted composed predictor: stage full name -> trained model
    _best_metalearner_wrap, \* the re-trainable specification: stage full name -> candidate wrapper
    heap,                 \* the BaseLearnerWrapper objects of the configured candidates: [name, params]
    returned,             \* what the calls of create_best_metalearner have returned so far
    last_call,            \* the last call of predict or create_best_metalearner and how it ended
    uplift_candidates,    \* AutoUplift.uplift_candidates
    checkout_timeout,     \* AutoUplift.checkout_timeout
    g_pc,                 \* position of AutoUplift.fit: "idle", "init", "loop", "done"
    idx_candidate,        \* loop index of AutoUplift.fit (counted from 0)
    best_metalearner_candidate_info,  \* local of AutoUplift.fit, stored at its end; index of the candidate, None before
    max_metric_value,     \* local of AutoUplift.fit
    candidate_holdout_metrics  \* AutoUplift.candidate_holdout_metrics: <<>> for None, <<m>> for a metric

api_vars == <<heap, returned, last_call>>

greedy_vars == <<uplift_candidates, checkout_timeout, g_pc, idx_candidate,
                 best_metalearner_candidate_info, max_metric_value, candidate_holdout_metrics>>

gen_vars == <<gen_pc, round, l1idx, pool_iter_levels, first_run, n_runs, l2_left>>

cfg_vars == <<baselearners, metalearners, stage_baselearners, timeout, increasing_metric, data>>

arg_vars == <<caller_train, caller_roles>>

fit_vars == <<pc, error, last_stage_info, last_fit_predict, warned, _trained_stage_baselearners,
              _metalearner_metrics, _best_metalearner, _best_metalearner_wrap>>

vars == <<cfg_vars, arg_vars, gen_vars, fit_vars, api_vars, greedy_vars>>

(***************************************************************************)
(* Bounds of the model.                                                    *)
(***************************************************************************)
\* longest candidate list configured for a stage
MaxCands == 2

\* largest number of submissions of a complete run of a configuration
MaxSubs == 9

\* datasets are numbered 0..MaxData
MaxData == 1

\* largest number of submissions of a complete run in the specification of the public calls
MaxSubsApi == 4

\* number of calls of create_best_metalearner that return
MaxCalls == 2

\* longest list of uplift_candidates the caller of AutoUplift supplies
MaxUser == 3

\* held-out uplift predictions range over -MaxPred..MaxPred
MaxPred == 2

\* largest number of records in the cache before a direct call of _evaluate
MaxEvals == 2

(***************************************************************************)
(* Python values.                                                          *)
(***************************************************************************)
\* Python's None; candidate wrappers are identified by their display name, a positive number
None == 0

\* timeout = None: no budget
NoTimeout == -1

NoStage == [name |-> "", prev_stage |-> <<>>]

\* a stage descriptor; prev_stage is <<>> or a one-element sequence holding the prerequisite descriptor
MetaLearnerStage(name, prev_stage) == [name |-> name, prev_stage |-> prev_stage]

RECURSIVE full_name(_)
full_name(stage) ==
    IF stage.prev_stage = <<>>
    THEN <<stage.name>>
    ELSE Append(full_name(stage.prev_stage[1]), stage.name)

MAP_META_TO_STAGES ==
    << [ml |-> "TLearner",
        stages |-> << MetaLearnerStage("outcome_control", <<>>),
                      MetaLearnerStage("outcome_treatment", <<>>) >>],
       [ml |-> "XLearner",
        stages |-> << MetaLearnerStage("outcome_control", <<>>),
                      MetaLearnerStage("outcome_treatment", <<>>),
                      MetaLearnerStage("propensity", <<>>),
                      MetaLearnerStage("effect_control",
                          <<MetaLearnerStage("outcome_treatment", <<>>)>>),
                      MetaLearnerStage("effect_treatment",
                          <<MetaLearnerStage("outcome_control", <<>>)>>) >>] >>

_n_run_l2 == 3

OC == <<"outcome_control">>
OT == <<"outcome_treatment">>
PR == <<"propensity">>
EC == <<"outcome_treatment", "effect_control">>
ET == <<"outcome_control", "effect_treatment">>

\* the stage descriptors of all strategies, in the order _extract_stages yields them
_extract_stages ==
    MAP_META_TO_STAGES[1].stages \o MAP_META_TO_STAGES[2].stages

\* the first stage with the given full name; NoStage stands for the raised exception
_extract_stage(fn) ==
    LET hits == {i \in 1..Len(_extract_stages) : full_name(_extract_stages[i]) = fn}
    IN  IF hits = {} THEN NoStage
        ELSE _extract_stages[CHOOSE i \in hits : \A j \in hits : i <= j]

\* MUTANT of Min: the second argument, whatever the first is
Min_second(a, b) == b

Min(a, b) == IF a <= b THEN a ELSE b

Max(a, b) == IF a >= b THEN a ELSE b

\* the sequence s without its i-th element (list.pop(i))
Pop(s, i) == SubSeq(s, 1, i - 1) \o SubSeq(s, i + 1, Len(s))

(***************************************************************************)
(* Dictionaries are sequences of entries in key insertion order.           *)
(***************************************************************************)
Keys(d) == [i \in 1..Len(d) |-> d[i].stage]

HasKey(d, fn) == \E i \in 1..Len(d) : d[i].stage = fn

\* d[fn] of a dict holding lists; the empty list when the key is absent
Get(d, fn) ==
    IF HasKey(d, fn)
    THEN d[CHOOSE i \in 1..Len(d) : d[i].stage = fn].bls
    ELSE <<>>

\* MUTANT of Append_to: the new record is put in front of the records of its stage
Append_to_front(d, fn, x) ==
    IF HasKey(d, fn)
    THEN [i \in 1..Len(d) |->
            IF d[i].stage = fn THEN [d[i] EXCEPT !.bls = <<x>> \o @] ELSE d[i]]
    ELSE Append(d, [stage |-> fn, bls |-> <<x>>])

\* d[fn].append(x) on a defaultdict(list): a missing key is created at the end
Append_to(d, fn, x) ==
    IF HasKey(d, fn)
    THEN [i \in 1..Len(d) |->
            IF d[i].stage = fn THEN [d[i] EXCEPT !.bls = Append(@, x)] ELSE d[i]]
    ELSE Append(d, [stage |-> fn, bls |-> <<x>>])

\* reading d[fn] of a defaultdict(list): a missing key is created empty
Touch(d, fn) ==
    IF HasKey(d, fn) THEN d ELSE Append(d, [stage |-> fn, bls |-> <<>>])

(***************************************************************************)
(* External collaborators, known by their interface only.                  *)
(***************************************************************************)
\* Timer.time_limit_exceeded() after a training event: never without a budget,
\* always with a zero budget (time has passed), either answer otherwise
time_limit_exceeded(t) ==
    IF t = NoTimeout THEN {FALSE}
    ELSE IF t = 0 THEN {TRUE}
    ELSE {FALSE, TRUE}

\* number of a stage full name, used by the dataset family only
StageNo(fn) ==
    IF fn = OC THEN 1 ELSE IF fn = OT THEN 2 ELSE IF fn = PR THEN 3
    ELSE IF fn = EC THEN 4 ELSE 5

\* bl.predict(test).data.ravel() of the model trained on dataset d for stage fn with
\* candidate bl, conditioned on prerequisite candidate prev: a value determined by
\* the dataset and by what was trained
predict(d, fn, bl, prev) ==
    ((d + 1) * StageNo(fn) + (d + StageNo(fn)) * bl + (d + 1) * prev) % 2

\* test_target of _prepare_data
test_target_of(d) == d % 2

\* test_treatment of _prepare_data
test_treatment_of(d) == (d \div 2) % 2

\* calculate_uplift_auc(target, prediction, treatment, metric, normed)
calculate_uplift_auc(target, uplift_pred, treatment) ==
    (target + 1) * uplift_pred - treatment

(***************************************************************************)
(* Data frames and roles.  A frame is [columns, rows], each row a function *)
(* from the columns to values; a roles dict is a sequence of [key, value]. *)
(***************************************************************************)
\* the roles dict handed to fit
roles_of_fit ==
    << [key |-> "target", value |-> "y"], [key |-> "treatment", value |-> "w"] >>

\* the dataset whose treatment column is 1 in every row
Degenerate == MaxData + 1

\* the train part of dataset d that _prepare_data returns
train_of(d) ==
    [columns |-> {"x", "w", "y"},
     rows |-> [i \in 1..4 |->
        [c \in {"x", "w", "y"} |->
            IF c = "x" THEN i
            ELSE IF c = "w" THEN (IF d = Degenerate THEN 1 ELSE i % 2)
            ELSE ((i \div 2) + d) % 2]]]

\* the exception of a fit against a slice without rows
EmptySliceError == "fit_predict: empty slice"

\* AutoML.fit_predict(train_data, train_roles): the exception it raises, "" when it
\* trains; fitting against an empty slice fails
fit_predict(train_data, train_roles) ==
    IF Len(train_data.rows) = 0 THEN EmptySliceError ELSE ""

\* AutoML.predict(frame).data.ravel() of a trained model: one value per row,
\* determined by the model and the features of the row
predict_rows(model, frame) ==
    [i \in 1..Len(frame.rows) |->
        (StageNo(model[1]) + 2 * model[2] + frame.rows[i]["x"]) % 3]

\* uplift_utils._get_treatment_role / _get_target_role: [role, col]
_get_role(roles, role) ==
    [role |-> role,
     col |-> roles[CHOOSE i \in 1..Len(roles) : roles[i].key = role].value]

\* dict.update(d)
RECURSIVE dict_update(_, _)
dict_update(params, d) ==
    IF d = <<>> THEN params
    ELSE LET e == Head(d)
             set == IF \E i \in 1..Len(params) : params[i].key = e.key
                    THEN [i \in 1..Len(params) |->
                             IF params[i].key = e.key THEN e ELSE params[i]]
                    ELSE Append(params, e)
         IN  dict_update(set, Tail(d))

\* dict.pop(key)
dict_pop(d, key) ==
    LET Other(e) == e.key # key
    IN  SelectSeq(d, Other)

\* frame[frame[col] == value]
rows_where(frame, col, value) ==
    LET Match(r) == r[col] = value
    IN  [frame EXCEPT !.rows = SelectSeq(@, Match)]

\* frame.drop(col, axis=1)
drop(frame, col) ==
    [columns |-> frame.columns \ {col},
     rows |-> [i \in 1..Len(frame.rows) |->
                  [c \in frame.columns \ {col} |-> frame.rows[i][c]]]]

\* frame[col] = values
set_column(frame, col, values) ==
    [columns |-> frame.columns \cup {col},
     rows |-> [i \in 1..Len(frame.rows) |->
                  [c \in frame.columns \cup {col} |->
                      IF c = col THEN values[i] ELSE frame.rows[i][c]]]]

(***************************************************************************)
(* The generator _generate_stage_baselearner_candidates.                   *)
(***************************************************************************)
\* stage_by_levels[level]: the configured stage full names of that depth, in key order
stage_by_levels(sb, level) ==
    LET IsLevel(e) == Len(e.stage) = level
    IN  Keys(SelectSeq(sb, IsLevel))

\* number of rows of zip_longest over the level-1 candidate lists
NRounds(sb) ==
    LET l1 == stage_by_levels(sb, 1)
        RECURSIVE MaxLen(_)
        MaxLen(i) == IF i = 0 THEN 0 ELSE Max(Len(Get(sb, l1[i])), MaxLen(i - 1))
    IN  MaxLen(Len(l1))

\* MUTANT of zip_row: a stage whose list is exhausted repeats its last candidate
zip_row_clamped(sb, r) ==
    LET l1 == stage_by_levels(sb, 1)
    IN  [j \in 1..Len(l1) |->
            LET bls == Get(sb, l1[j])
            IN  IF r <= Len(bls) THEN bls[r]
                ELSE IF Len(bls) > 0 THEN bls[Len(bls)] ELSE None]

\* the r-th tuple of zip_longest(*level-1 lists): exhausted lists are filled with None
zip_row(sb, r) ==
    LET l1 == stage_by_levels(sb, 1)
    IN  [j \in 1..Len(l1) |->
            LET bls == Get(sb, l1[j])
            IN  IF r <= Len(bls) THEN bls[r] ELSE None]

\* MUTANT of unlocked: the prerequisite of the level-2 stage is not compared with the level-1 stage
unlocked_any_stage(sb, stage_name_l1, bl_l1) ==
    LET hit == stage_by_levels(sb, 2)
    IN  [i \in 1..Len(hit) |-> [stage |-> hit[i], bl_l1 |-> bl_l1, it |-> 0]]

\* the pool entries a level-1 pair unlocks, in the order of stage_by_levels[2]
unlocked(sb, stage_name_l1, bl_l1) ==
    LET l2 == stage_by_levels(sb, 2)
        Match(fn) == SubSeq(fn, 1, 1) = stage_name_l1
        hit == SelectSeq(l2, Match)
    IN  [i \in 1..Len(hit) |-> [stage |-> hit[i], bl_l1 |-> bl_l1, it |-> 0]]

(***************************************************************************)
(* The Stage Trainer: _prepare_data_for_stage and _evaluate.               *)
(* A stage_info is a sequence of one or two [stage, bl] pairs.             *)
(***************************************************************************)
\* MUTANT of prev_records: the candidate name of the prerequisite is not compared
prev_records_any(cache, prev_fn, prev_bl) ==
    Get(cache, prev_fn)

\* the cached records of the prerequisite stage whose candidate has the given name
prev_records(cache, prev_fn, prev_bl) ==
    LET Named(r) == r.stage_bl = prev_bl
    IN  SelectSeq(Get(cache, prev_fn), Named)

\* the slice of train for the rows of one treatment group, treatment column dropped
group_slice(train, treatment_col, group) ==
    drop(rows_where(train, treatment_col, group), treatment_col)

\* MUTANT of level1_slice: the outcome stages take the rows of the other group
level1_slice_swapped(stage_name, train, roles) ==
    LET treatment == _get_role(roles, "treatment")
        target == _get_role(roles, "target")
    IN  IF stage_name = "propensity"
        THEN [train_roles |-> dict_update(dict_pop(dict_pop(roles, treatment.role), target.role),
                                          <<[key |-> "target", value |-> treatment.col]>>),
              train_data |-> drop(train, target.col),
              train |-> train, roles |-> roles]
        ELSE [train_roles |-> dict_pop(roles, treatment.role),
              train_data |-> group_slice(train, treatment.col,
                                 IF stage_name = "outcome_control" THEN 1 ELSE 0),
              train |-> train, roles |-> roles]

\* [train_roles, train_data, train, roles] of the branch len(stage_info) == 1: the
\* roles and data for fit_predict, built on a deepcopy of roles and on new frames, and
\* the caller's train and roles after the branch
level1_slice(stage_name, train, roles) ==
    LET treatment == _get_role(roles, "treatment")
        target == _get_role(roles, "target")
    IN  IF stage_name = "propensity"
        THEN [train_roles |-> dict_update(dict_pop(dict_pop(roles, treatment.role), target.role),
                                          <<[key |-> "target", value |-> treatment.col]>>),
              train_data |-> drop(train, target.col),
              train |-> train, roles |-> roles]
        ELSE [train_roles |-> dict_pop(roles, treatment.role),
              train_data |-> group_slice(train, treatment.col,
                                 IF stage_name = "outcome_control" THEN 0 ELSE 1),
              train |-> train, roles |-> roles]

\* MUTANT of level2_slice: the roles are popped and the derived target is assigned
\* without copies, so both reach the caller's roles and train
level2_slice_in_place(stage_name, prev_stage_bl, train, roles) ==
    LET treatment == _get_role(roles, "treatment")
        target == _get_role(roles, "target")
        train_data == group_slice(train, treatment.col,
                          IF stage_name = "effect_control" THEN 0 ELSE 1)
        opposite_gr_pred == predict_rows(prev_stage_bl, train_data)
        derived == [i \in 1..Len(train_data.rows) |->
                      IF stage_name = "effect_control"
                      THEN opposite_gr_pred[i] - train_data.rows[i][target.col]
                      ELSE train_data.rows[i][target.col] - opposite_gr_pred[i]]
    IN  [train_roles |-> dict_pop(roles, treatment.role),
         train_data |-> set_column(train_data, target.col, derived),
         train |-> [train EXCEPT !.rows =
                      [r \in 1..Len(train.rows) |->
                          IF \E i \in 1..Len(train_data.rows) :
                                train_data.rows[i]["x"] = train.rows[r]["x"]
                          THEN [train.rows[r] EXCEPT ![target.col] =
                                   derived[CHOOSE i \in 1..Len(train_data.rows) :
                                              train_data.rows[i]["x"] = train.rows[r]["x"]]]
                          ELSE train.rows[r]]],
         roles |-> dict_pop(roles, treatment.role)]

\* [train_roles, train_data, train, roles] of the branch len(stage_info) == 2 for the prerequisite
\* model prev_stage_bl
level2_slice(stage_name, prev_stage_bl, train, roles) ==
    LET treatment == _get_role(roles, "treatment")
        target == _get_role(roles, "target")
        train_data == group_slice(train, treatment.col,
                          IF stage_name = "effect_control" THEN 0 ELSE 1)
        opposite_gr_pred == predict_rows(prev_stage_bl, train_data)
        derived == [i \in 1..Len(train_data.rows) |->
                      IF stage_name = "effect_control"
                      THEN opposite_gr_pred[i] - train_data.rows[i][target.col]
                      ELSE train_data.rows[i][target.col] - opposite_gr_pred[i]]
    IN  [train_roles |-> dict_pop(roles, treatment.role),
         train_data |-> set_column(train_data, target.col, derived),
         train |-> train, roles |-> roles]

\* [err, cache, prev_model, train_data, train_roles, train, roles]: the exception
\* raised ("" when none), the cache after the defaultdict lookups, the prerequisite
\* model whose prediction builds the target, the data and roles for fit_predict, and
\* the caller's train and roles after the call
_prepare_data_for_stage(cache, stage_info, train, roles) ==
    LET stage_name == stage_info[Len(stage_info)].stage.name
        failed(err, c) == [err |-> err, cache |-> c, prev_model |-> <<>>,
                           train_data |-> <<>>, train_roles |-> <<>>,
                           train |-> train, roles |-> roles]
    IN  IF Len(stage_info) = 1
        THEN IF stage_name \in {"propensity", "outcome_control", "outcome_treatment"}
             THEN LET sl == level1_slice(stage_name, train, roles)
                  IN  sl @@ [err |-> "", cache |-> cache, prev_model |-> <<>>]
             ELSE failed("Wrong l1 stage name", cache)
        ELSE LET prev_fn == full_name(stage_info[1].stage)
                 found == prev_records(cache, prev_fn, stage_info[1].bl)
                 touched == Touch(cache, prev_fn)
             IN  IF found = <<>>
                 THEN failed("IndexError", touched)
                 ELSE IF stage_name \in {"effect_control", "effect_treatment"}
                 THEN LET sl == level2_slice(stage_name, found[1].trained_model, train, roles)
                      IN  sl @@ [err |-> "", cache |-> touched,
                                 prev_model |-> found[1].trained_model]
                 ELSE failed("Wrong l2 stage name", touched)

\* MUTANT of _evaluate: the record is appended before the model is fitted
_evaluate_record_first(cache, stage_info, d, train, roles) ==
    LET prep == _prepare_data_for_stage(cache, stage_info, train, roles)
        last == stage_info[Len(stage_info)]
        fn == full_name(last.stage)
        prev_bl_wrap == IF Len(stage_info) = 2 THEN stage_info[1].bl ELSE None
        tsbl == [stage_bl |-> last.bl,
                 prev_stage_bl |-> prev_bl_wrap,
                 trained_model |-> <<fn, last.bl, prev_bl_wrap>>,
                 pred |-> predict(d, fn, last.bl, prev_bl_wrap)]
    IN  (   IF prep.err # ""
            THEN [err |-> prep.err, cache |-> prep.cache, fit_predict |-> <<>>]
            ELSE IF last.bl = None
            THEN [err |-> "TypeError", cache |-> prep.cache, fit_predict |-> <<>>]
            ELSE [err |-> fit_predict(prep.train_data, prep.train_roles),
                  cache |-> Append_to(prep.cache, fn, tsbl),
                  fit_predict |-> [stage_info |-> stage_info,
                                   train_data |-> prep.train_data,
                                   train_roles |-> prep.train_roles]])
        @@ [train |-> prep.train, roles |-> prep.roles]

\* [err, cache, fit_predict, train, roles]: the outcome of
\* _evaluate(stage_info, train, test, roles) on dataset d; fit_predict holds the
\* arguments bl.fit_predict was called with, train and roles are the caller's objects
\* after the call
_evaluate(cache, stage_info, d, train, roles) ==
    LET prep == _prepare_data_for_stage(cache, stage_info, train, roles)
        last == stage_info[Len(stage_info)]
        fn == full_name(last.stage)
        prev_bl_wrap == IF Len(stage_info) = 2 THEN stage_info[1].bl ELSE None
        tsbl == [stage_bl |-> last.bl,
                 prev_stage_bl |-> prev_bl_wrap,
                 trained_model |-> <<fn, last.bl, prev_bl_wrap>>,
                 pred |-> predict(d, fn, last.bl, prev_bl_wrap)]
    IN  (   IF prep.err # ""
            THEN [err |-> prep.err, cache |-> prep.cache, fit_predict |-> <<>>]
            ELSE IF last.bl = None
            THEN [err |-> "TypeError", cache |-> prep.cache, fit_predict |-> <<>>]
            ELSE IF fit_predict(prep.train_data, prep.train_roles) # ""
            THEN [err |-> fit_predict(prep.train_data, prep.train_roles),
                  cache |-> prep.cache,
                  fit_predict |-> [stage_info |-> stage_info,
                                   train_data |-> prep.train_data,
                                   train_roles |-> prep.train_roles]]
            ELSE [err |-> "", cache |-> Append_to(prep.cache, fn, tsbl),
                  fit_predict |-> [stage_info |-> stage_info,
                                   train_data |-> prep.train_data,
                                   train_roles |-> prep.train_roles]])
        @@ [train |-> prep.train, roles |-> prep.roles]

(***************************************************************************)
(* The constructor arguments and _set_stage_baselearners.                  *)
(* The argument baselearners is [kind, value]: kind "none" (None), "list"  *)
(* (value: the list of wrappers) or "dict" (value: the entries             *)
(* [stage, bls] in key order).                                             *)
(***************************************************************************)
\* display names of the two predefined candidates
__Linear__ == 8

__Tabular__ == 9

\* key orders of the configured stage dict, and iteration orders of the set of
\* remaining stage full names
StageOrders ==
    { <<OC, OT, PR, EC, ET>>, <<PR, ET, OT, EC, OC>> }

\* the task of a stage: stage.params['task'] if the stage has one, else base_task
stage_task(fn) ==
    IF fn = PR THEN "binary" ELSE IF fn \in {EC, ET} THEN "reg" ELSE "base_task"

\* timeout of the predefined TabularAutoML candidate; timeout_single_learner is left
\* at its default None
_calculate_single_bl_timeout(specify_stages, t, mls) ==
    LET timeout_single_learner == NoTimeout
        has(ml) == IF \E i \in 1..Len(mls) : mls[i] = ml THEN 1 ELSE 0
    IN  IF ~specify_stages
        THEN IF t # NoTimeout
             THEN t \div (2 * has("TLearner") + 5 * has("XLearner"))
             ELSE timeout_single_learner
        ELSE timeout_single_learner

\* __default_learners(tab_params={'timeout': timeout}): [name, params] of each wrapper
__default_learners(tab_timeout) ==
    << [name |-> __Linear__, params |-> <<>>],
       [name |-> __Tabular__, params |-> <<[key |-> "timeout", value |-> tab_timeout]>>] >>

\* the wrapper a caller configures under display name k
user_wrapper(k) ==
    [name |-> k, params |-> <<[key |-> "timeout", value |-> NoTimeout]>>]

\* params['task'] = stage_task on a copy of a predefined wrapper
with_task(w, task) ==
    [w EXCEPT !.params = Append(@, [key |-> "task", value |-> task])]

\* the wrappers of each stage, in key order: [stage, bls] with bls a list of [name, params];
\* order is the iteration order of the set of remaining stage full names.  A list
\* argument is copied into baselearners and then replaced by the predefined candidates
_set_stage_wrappers(arg, order, t, mls) ==
    LET given == IF arg.kind = "dict"
                 THEN [i \in 1..Len(arg.value) |->
                          [stage |-> arg.value[i].stage,
                           bls |-> [k \in 1..Len(arg.value[i].bls) |->
                                       user_wrapper(arg.value[i].bls[k])]]]
                 ELSE <<>>
        all_stages_full_names ==
            {full_name(_extract_stages[i]) : i \in 1..Len(_extract_stages)}
        Remains(fn) == fn \in all_stages_full_names /\ ~HasKey(given, fn)
        remain_stages_full_names == SelectSeq(order, Remains)
        defaults == __default_learners(_calculate_single_bl_timeout(Len(given) > 0, t, mls))
        HasTask(w) == \E i \in 1..Len(w.params) : w.params[i].key = "task"
        NoTask(w) == ~HasTask(w)
        bin_baselearners == SelectSeq(defaults, HasTask)
        raw_baselearners == SelectSeq(defaults, NoTask)
        on_stage(fn) ==
            [k \in 1..Len(raw_baselearners) |-> with_task(raw_baselearners[k], stage_task(fn))]
                \o (IF stage_task(fn) \in {"binary", "reg"} THEN bin_baselearners ELSE <<>>)
    IN  IF Len(given) # Cardinality(all_stages_full_names)
        THEN given \o [i \in 1..Len(remain_stages_full_names) |->
                          [stage |-> remain_stages_full_names[i],
                           bls |-> on_stage(remain_stages_full_names[i])]]
        ELSE given

\* the dict _set_stage_baselearners returns, each wrapper given by its display name
_set_stage_baselearners(arg, order, t, mls) ==
    LET w == _set_stage_wrappers(arg, order, t, mls)
    IN  [i \in 1..Len(w) |->
            [stage |-> w[i].stage, bls |-> [k \in 1..Len(w[i].bls) |-> w[i].bls[k].name]]]

\* the wrapper objects of all stages, stage after stage
RECURSIVE wrapper_objects(_)
wrapper_objects(w) ==
    IF w = <<>> THEN <<>> ELSE Head(w).bls \o wrapper_objects(Tail(w))

\* the place in the heap of the wrapper that stage fn lists at position k
RECURSIVE wrapper_ref(_, _, _)
wrapper_ref(sb, fn, k) ==
    IF Head(sb).stage = fn THEN k
    ELSE Len(Head(sb).bls) + wrapper_ref(Tail(sb), fn, k)

(***************************************************************************)
(* Initial state: the object after __init__, fit about to start.           *)
(***************************************************************************)
\* number of submissions of a run that trains everything
FullRun(n_oc, n_ot, n_pr, n_ec, n_et) ==
    n_oc + n_ot + n_pr + n_ot * n_ec + n_oc * n_et

\* the candidate list of n wrappers with display names 1..n
CandList(n) == [k \in 1..n |-> k]

\* the AutoUplift object is not in use
GreedyIdle ==
    /\ uplift_candidates = <<>>
    /\ checkout_timeout = TRUE
    /\ g_pc = "idle"
    /\ idx_candidate = 0
    /\ best_metalearner_candidate_info = None
    /\ max_metric_value = 0
    /\ candidate_holdout_metrics = <<>>

\* self.metalearners for the constructor argument ml_arg
metalearners_of(ml_arg) ==
    IF Len(ml_arg) > 0 THEN ml_arg
    ELSE [m \in 1..Len(MAP_META_TO_STAGES) |-> MAP_META_TO_STAGES[m].ml]

\* AutoUpliftTX(baselearners=bl_arg, metalearners=ml_arg, timeout=t) before fit
InitTX(bl_arg, ml_arg, order, t) ==
    /\ baselearners = bl_arg
    /\ metalearners = metalearners_of(ml_arg)
    /\ timeout = t
    /\ stage_baselearners = _set_stage_baselearners(bl_arg, order, t, metalearners)
    /\ heap = wrapper_objects(_set_stage_wrappers(bl_arg, order, t, metalearners))
    /\ increasing_metric \in BOOLEAN
    /\ data \in 0..Degenerate
    /\ caller_train = train_of(data)
    /\ caller_roles = roles_of_fit
    /\ pc = "train"
    /\ error = ""
    /\ gen_pc = IF NRounds(stage_baselearners) = 0 THEN "drain" ELSE "l1"
    /\ round = 1
    /\ l1idx = 1
    /\ pool_iter_levels = <<>>
    /\ first_run = TRUE
    /\ n_runs = 0
    /\ l2_left = 0
    /\ last_stage_info = <<>>
    /\ last_fit_predict = <<>>
    /\ warned = FALSE
    /\ _trained_stage_baselearners = <<>>
    /\ _metalearner_metrics = <<>>
    /\ _best_metalearner = <<>>
    /\ _best_metalearner_wrap = <<>>
    /\ returned = <<>>
    /\ last_call = [op |-> "__init__", raised |-> ""]

\* a dict argument that lists every stage: stage order[i] with n[order[i]] candidates
FullDict(order, n) ==
    [kind |-> "dict",
     value |-> [i \in 1..5 |-> [stage |-> order[i], bls |-> CandList(n[order[i]])]]]

Init ==
    /\ \E order \in StageOrders, n \in [{OC, OT, PR, EC, ET} -> 0..MaxCands],
          t \in {NoTimeout, 0, 1} :
          /\ FullRun(n[OC], n[OT], n[PR], n[EC], n[ET]) <= MaxSubs
          /\ InitTX(FullDict(order, n), <<>>, order, t)
    /\ GreedyIdle

(***************************************************************************)
(* fit: the loop over the generator.  Each action is one step of the       *)
(* generator together with the body of the for loop of fit it leads to     *)
(* (_evaluate, then the timer check).                                      *)
(***************************************************************************)
\* MUTANT of next_l1: a stage hands out all its candidates before the next stage starts
next_l1_depth_first(sb, r, j) ==
    IF r < NRounds(sb)
    THEN [gen_pc |-> "l1", round |-> r + 1, l1idx |-> j]
    ELSE IF j < Len(stage_by_levels(sb, 1))
    THEN [gen_pc |-> "l1", round |-> 1, l1idx |-> j + 1]
    ELSE [gen_pc |-> "drain", round |-> r, l1idx |-> j]

\* MUTANT of next_l1: the level-1 loops move on by the number of submissions made so
\* far, which counts the second-level ones the draws produced
next_l1_by_n_runs(sb, r, j) ==
    IF n_runs % 2 = 1 /\ r < NRounds(sb)
    THEN [gen_pc |-> "l1", round |-> r + 1, l1idx |-> j]
    ELSE IF j < Len(stage_by_levels(sb, 1))
    THEN [gen_pc |-> "l1", round |-> r, l1idx |-> j + 1]
    ELSE IF r < NRounds(sb)
    THEN [gen_pc |-> "l1", round |-> r + 1, l1idx |-> 1]
    ELSE [gen_pc |-> "drain", round |-> r, l1idx |-> j]

\* the position of the level-1 loops after the current pair: [gen_pc, round, l1idx]
next_l1(sb, r, j) ==
    IF j < Len(stage_by_levels(sb, 1))
    THEN [gen_pc |-> "l1", round |-> r, l1idx |-> j + 1]
    ELSE IF r < NRounds(sb)
    THEN [gen_pc |-> "l1", round |-> r + 1, l1idx |-> 1]
    ELSE [gen_pc |-> "drain", round |-> r, l1idx |-> j]

\* MUTANT of first_run_after: the first round ends with the first submission
first_run_after_one(sb, fr, nr) ==
    IF nr >= 1 THEN FALSE ELSE fr

\* "if n_runs >= len(stage_by_levels[1]): first_run = False"
first_run_after(sb, fr, nr) ==
    IF nr >= Len(stage_by_levels(sb, 1)) THEN FALSE ELSE fr

\* the end of one iteration of the inner level-1 loop: the first_run update, then the next pair
EndOfL1Iteration(nr) ==
    LET nxt == next_l1(stage_baselearners, round, l1idx)
    IN  /\ first_run' = first_run_after(stage_baselearners, first_run, nr)
        /\ gen_pc' = nxt.gen_pc
        /\ round' = nxt.round
        /\ l1idx' = nxt.l1idx
        /\ l2_left' = 0

\* MUTANT of FitLoopBody: the loop is not left when the budget is exceeded
FitLoopBody_no_break(stage_info, Resume, Suspended) ==
    LET ev == _evaluate(_trained_stage_baselearners, stage_info, data,
                        caller_train, caller_roles)
    IN  /\ caller_train' = ev.train
        /\ caller_roles' = ev.roles
        /\ last_stage_info' = stage_info
        /\ last_fit_predict' = IF ev.fit_predict # <<>> THEN ev.fit_predict ELSE last_fit_predict
        /\ _trained_stage_baselearners' = ev.cache
        /\ IF ev.err # ""
           THEN /\ pc' = "error"
                /\ error' = ev.err
                /\ warned' = warned
                /\ Suspended
           ELSE /\ error' = error
                /\ pc' = pc
                /\ \E exceeded \in time_limit_exceeded(timeout) : warned' = (warned \/ exceeded)
                /\ Resume

\* the fit loop body for a yielded stage_info; Resume is what the generator does when
\* fit asks for the next element
FitLoopBody(stage_info, Resume, Suspended) ==
    LET ev == _evaluate(_trained_stage_baselearners, stage_info, data,
                        caller_train, caller_roles)
    IN  /\ caller_train' = ev.train
        /\ caller_roles' = ev.roles
        /\ last_stage_info' = stage_info
        /\ last_fit_predict' = IF ev.fit_predict # <<>> THEN ev.fit_predict ELSE last_fit_predict
        /\ _trained_stage_baselearners' = ev.cache
        /\ IF ev.err # ""
           THEN /\ pc' = "error"
                /\ error' = ev.err
                /\ warned' = warned
                /\ Suspended
           ELSE /\ error' = error
                /\ \E exceeded \in time_limit_exceeded(timeout) :
                      IF exceeded
                      THEN pc' = "metric" /\ warned' = TRUE /\ Suspended
                      ELSE pc' = pc /\ warned' = warned /\ Resume

\* the next level-1 pair of the round-robin is yielded and trained
SubmitL1 ==
    /\ pc = "train"
    /\ gen_pc = "l1"
    /\ LET sb == stage_baselearners
           stage_name_l1 == stage_by_levels(sb, 1)[l1idx]
           bl_l1 == zip_row(sb, round)[l1idx]
           stage_l1 == _extract_stage(stage_name_l1)
           pool == pool_iter_levels \o unlocked(sb, stage_name_l1, bl_l1)
       IN  /\ pool_iter_levels' = pool
           /\ n_runs' = n_runs + 1
           /\ FitLoopBody(<<[stage |-> stage_l1, bl |-> bl_l1]>>,
                 IF first_run \/ Len(pool) = 0
                 THEN IF first_run
                      THEN EndOfL1Iteration(n_runs + 1)
                      ELSE LET nxt == next_l1(sb, round, l1idx)
                           IN  /\ gen_pc' = nxt.gen_pc
                               /\ round' = nxt.round
                               /\ l1idx' = nxt.l1idx
                               /\ UNCHANGED <<first_run, l2_left>>
                 ELSE /\ gen_pc' = "l2"
                      /\ l2_left' = Min(Len(pool), _n_run_l2)
                      /\ UNCHANGED <<round, l1idx, first_run>>,
                 UNCHANGED <<gen_pc, round, l1idx, first_run, l2_left>>)
    /\ UNCHANGED <<cfg_vars, api_vars, greedy_vars, _metalearner_metrics, _best_metalearner, _best_metalearner_wrap>>

\* the pool after entry idx has handed out its next candidate
advance_iter(pool, idx) == [pool EXCEPT ![idx].it = @ + 1]

\* one random draw inside the level-1 loop: a level-2 pair is yielded and trained,
\* or the drawn entry is exhausted and dropped
DrawL2 ==
    /\ pc = "train"
    /\ gen_pc = "l2"
    /\ IF Len(pool_iter_levels) = 0
       THEN /\ pc' = "error"
            /\ error' = "ValueError"
            /\ UNCHANGED <<arg_vars, gen_vars, last_stage_info, last_fit_predict, warned,
                           _trained_stage_baselearners>>
       ELSE \E idx \in 1..Len(pool_iter_levels) :
              LET entry == pool_iter_levels[idx]
                  bls == Get(stage_baselearners, entry.stage)
                  Finish(nr) == IF l2_left = 1
                                THEN EndOfL1Iteration(nr)
                                ELSE /\ l2_left' = l2_left - 1
                                     /\ UNCHANGED <<gen_pc, round, l1idx, first_run>>
              IN  IF entry.it < Len(bls)
                  THEN /\ pool_iter_levels' = advance_iter(pool_iter_levels, idx)
                       /\ n_runs' = n_runs + 1
                       /\ FitLoopBody(
                             <<[stage |-> _extract_stage(SubSeq(entry.stage, 1, 1)), bl |-> entry.bl_l1],
                               [stage |-> _extract_stage(entry.stage), bl |-> bls[entry.it + 1]]>>,
                             Finish(n_runs + 1),
                             UNCHANGED <<gen_pc, round, l1idx, first_run, l2_left>>)
                  ELSE /\ pool_iter_levels' = Pop(pool_iter_levels, idx)
                       /\ n_runs' = n_runs
                       /\ Finish(n_runs)
                       /\ UNCHANGED <<arg_vars, pc, error, last_stage_info, last_fit_predict, warned,
                                      _trained_stage_baselearners>>
    /\ UNCHANGED <<cfg_vars, api_vars, greedy_vars, _metalearner_metrics, _best_metalearner, _best_metalearner_wrap>>

\* one random draw of the final while loop
DrawDrain ==
    /\ pc = "train"
    /\ gen_pc = "drain"
    /\ Len(pool_iter_levels) > 0
    /\ \E idx \in 1..Len(pool_iter_levels) :
          LET entry == pool_iter_levels[idx]
              bls == Get(stage_baselearners, entry.stage)
          IN  IF entry.it < Len(bls)
              THEN /\ pool_iter_levels' = advance_iter(pool_iter_levels, idx)
                   /\ FitLoopBody(
                         <<[stage |-> _extract_stage(SubSeq(entry.stage, 1, 1)), bl |-> entry.bl_l1],
                           [stage |-> _extract_stage(entry.stage), bl |-> bls[entry.it + 1]]>>,
                         TRUE, TRUE)
              ELSE /\ pool_iter_levels' = Pop(pool_iter_levels, idx)
                   /\ UNCHANGED <<arg_vars, pc, error, last_stage_info, last_fit_predict, warned,
                                      _trained_stage_baselearners>>
    /\ UNCHANGED <<gen_pc, round, l1idx, first_run, n_runs, l2_left>>
    /\ UNCHANGED <<cfg_vars, api_vars, greedy_vars, _metalearner_metrics, _best_metalearner, _best_metalearner_wrap>>

\* the generator returns: the for loop of fit ends without a budget stop
GeneratorEnd ==
    /\ pc = "train"
    /\ gen_pc = "drain"
    /\ Len(pool_iter_levels) = 0
    /\ gen_pc' = "end"
    /\ pc' = "metric"
    /\ UNCHANGED <<round, l1idx, pool_iter_levels, first_run, n_runs, l2_left>>
    /\ UNCHANGED <<cfg_vars, arg_vars, api_vars, greedy_vars, error, last_stage_info,
                   last_fit_predict, warned, _trained_stage_baselearners,
                   _metalearner_metrics, _best_metalearner, _best_metalearner_wrap>>

(***************************************************************************)
(* The Strategy Assembler: _bl_for_ml, _metalearner_predict and            *)
(* _calculate_ml_metric.                                                   *)
(***************************************************************************)
\* itertools.product(*lists): all tuples, the last list varying fastest
RECURSIVE product(_)
product(lists) ==
    IF lists = <<>>
    THEN << <<>> >>
    ELSE LET rest == product(Tail(lists))
             RECURSIVE Rows(_)
             Rows(i) == IF i > Len(Head(lists)) THEN <<>>
                        ELSE [k \in 1..Len(rest) |-> <<Head(lists)[i]>> \o rest[k]] \o Rows(i + 1)
         IN  Rows(1)

\* MUTANT of any_ready: a strategy counts as ready when one of its stages has a cache key
any_ready_one_stage(c) ==
    \E m \in 1..Len(MAP_META_TO_STAGES) :
        \E k \in 1..Len(MAP_META_TO_STAGES[m].stages) :
            HasKey(c, full_name(MAP_META_TO_STAGES[m].stages[k]))

\* ready_metalearners: some strategy has a cache key for every one of its stages
any_ready(cache) ==
    \E m \in 1..Len(MAP_META_TO_STAGES) :
        \A k \in 1..Len(MAP_META_TO_STAGES[m].stages) :
            HasKey(cache, full_name(MAP_META_TO_STAGES[m].stages[k]))

\* set_bls[fn] for one tuple bl of the product over the cache keys
set_bls_get(cache, bl, fn) ==
    bl[CHOOSE i \in 1..Len(cache) : cache[i].stage = fn]

\* MUTANT of stage_accepted: the prerequisite candidate of a second-level record is not compared
stage_accepted_unchecked(cache, bl, fn) ==
    HasKey(cache, fn)
        /\ (set_bls_get(cache, bl, fn).prev_stage_bl # None => HasKey(cache, SubSeq(fn, 1, 1)))

\* whether the loop body over ml_stages stores set_bls[fn] into ml_bls
stage_accepted(cache, bl, fn) ==
    /\ HasKey(cache, fn)
    /\ LET trained_sbl == set_bls_get(cache, bl, fn)
       IN  IF trained_sbl.prev_stage_bl = None
           THEN TRUE
           ELSE /\ HasKey(cache, SubSeq(fn, 1, 1))
                /\ trained_sbl.prev_stage_bl = set_bls_get(cache, bl, SubSeq(fn, 1, 1)).stage_bl

\* ml_bls of one strategy for one tuple: the accepted [stage, rec] pairs in ml_stages order
ml_bls_of(cache, bl, ml_stages) ==
    LET names == [k \in 1..Len(ml_stages) |-> full_name(ml_stages[k])]
        Accepted(fn) == stage_accepted(cache, bl, fn)
        kept == SelectSeq(names, Accepted)
    IN  [k \in 1..Len(kept) |-> [stage |-> kept[k], rec |-> set_bls_get(cache, bl, kept[k])]]

\* set_ml_with_sbls of one tuple: the strategies that collected all their stages, in dict order
set_ml_with_sbls(cache, bl) ==
    LET all == [m \in 1..Len(MAP_META_TO_STAGES) |->
                    [ml |-> MAP_META_TO_STAGES[m].ml,
                     n_stages |-> Len(MAP_META_TO_STAGES[m].stages),
                     stage_bls |-> ml_bls_of(cache, bl, MAP_META_TO_STAGES[m].stages)]]
        Complete(e) == Len(e.stage_bls) = e.n_stages
    IN  SelectSeq(all, Complete)

\* MUTANT of _bl_for_ml: the product is yielded without the readiness test
_bl_for_ml_unguarded(cache) ==
    LET bls_prd == product([i \in 1..Len(cache) |-> cache[i].bls])
    IN  [err |-> "",
         sets |-> [k \in 1..Len(bls_prd) |-> set_ml_with_sbls(cache, bls_prd[k])]]

\* [err, sets]: what _bl_for_ml raises or yields, in the order it yields
_bl_for_ml(cache) ==
    IF ~any_ready(cache)
    THEN [err |-> "No one metalearner can predict.", sets |-> <<>>]
    ELSE LET bls_prd == product([i \in 1..Len(cache) |-> cache[i].bls])
         IN  [err |-> "",
              sets |-> [k \in 1..Len(bls_prd) |-> set_ml_with_sbls(cache, bls_prd[k])]]

\* baselearners[fn] of the dict handed to _metalearner_predict
rec_of(stage_bls, fn) ==
    stage_bls[CHOOSE i \in 1..Len(stage_bls) : stage_bls[i].stage = fn].rec

\* MUTANT of _metalearner_predict: the operands of the difference are exchanged, and
\* the propensity weighs the effect_control prediction
_metalearner_predict_exchanged(metalearner, stage_bls) ==
    IF metalearner = "TLearner"
    THEN [err |-> "", uplift_pred |-> rec_of(stage_bls, OC).pred - rec_of(stage_bls, OT).pred]
    ELSE IF metalearner = "XLearner"
    THEN LET control_pred == rec_of(stage_bls, ET).pred
             treatment_pred == rec_of(stage_bls, EC).pred
             propensity_pred == rec_of(stage_bls, PR).pred
         IN  [err |-> "",
              uplift_pred |-> propensity_pred * treatment_pred
                                 + (1 - propensity_pred) * control_pred]
    ELSE [err |-> "Exception", uplift_pred |-> 0]

\* [err, uplift_pred]: the exception raised ("" when none, "Exception" for an unknown
\* strategy name) and the held-out prediction of an assembled strategy
_metalearner_predict(metalearner, stage_bls) ==
    IF metalearner = "TLearner"
    THEN [err |-> "", uplift_pred |-> rec_of(stage_bls, OT).pred - rec_of(stage_bls, OC).pred]
    ELSE IF metalearner = "XLearner"
    THEN LET control_pred == rec_of(stage_bls, EC).pred
             treatment_pred == rec_of(stage_bls, ET).pred
             propensity_pred == rec_of(stage_bls, PR).pred
         IN  [err |-> "",
              uplift_pred |-> propensity_pred * treatment_pred
                                 + (1 - propensity_pred) * control_pred]
    ELSE [err |-> "Exception", uplift_pred |-> 0]

\* alphabetical rank of a stage name (Python string comparison)
name_rank(name) ==
    IF name = "effect_control" THEN 1
    ELSE IF name = "effect_treatment" THEN 2
    ELSE IF name = "outcome_control" THEN 3
    ELSE IF name = "outcome_treatment" THEN 4
    ELSE 5

\* Python tuple comparison a < b of two stage full names
RECURSIVE tuple_less(_, _)
tuple_less(a, b) ==
    IF a = <<>> THEN b # <<>>
    ELSE IF b = <<>> THEN FALSE
    ELSE IF name_rank(a[1]) # name_rank(b[1]) THEN name_rank(a[1]) < name_rank(b[1])
    ELSE tuple_less(Tail(a), Tail(b))

\* sorted([(stage_name, bl.stage_bl.name) ...]): the stage names of one ml_bls are distinct
sorted_sbls(stage_bls) ==
    LET n == Len(stage_bls)
        pos == [i \in 1..n |->
                  1 + Cardinality({j \in 1..n : tuple_less(stage_bls[j].stage, stage_bls[i].stage)})]
    IN  [p \in 1..n |->
            LET i == CHOOSE i \in 1..n : pos[i] = p
            IN  <<stage_bls[i].stage, stage_bls[i].rec.stage_bl>>]

\* MUTANT of dict_set: every write appends an entry
dict_set_append(table, ml, sbls, value) ==
    Append(table, [ml |-> ml, sbls |-> sbls, metric |-> value])

\* d[key] = value on a dict: an existing key keeps its place
dict_set(table, ml, sbls, value) ==
    IF \E i \in 1..Len(table) : table[i].ml = ml /\ table[i].sbls = sbls
    THEN [i \in 1..Len(table) |->
            IF table[i].ml = ml /\ table[i].sbls = sbls
            THEN [table[i] EXCEPT !.metric = value] ELSE table[i]]
    ELSE Append(table, [ml |-> ml, sbls |-> sbls, metric |-> value])

\* the score table after the inner loop over one yielded set_ml_stage_bls
RECURSIVE score_set(_, _, _, _, _)
score_set(table, set, i, test_target, test_treatment) ==
    IF i > Len(set) THEN table
    ELSE LET uplift_pred == _metalearner_predict(set[i].ml, set[i].stage_bls).uplift_pred
             metric_value == calculate_uplift_auc(test_target, uplift_pred, test_treatment)
         IN  score_set(dict_set(table, set[i].ml, sorted_sbls(set[i].stage_bls), metric_value),
                       set, i + 1, test_target, test_treatment)

\* the score table after the outer loop over everything _bl_for_ml yields
RECURSIVE score_all(_, _, _, _, _)
score_all(table, sets, k, test_target, test_treatment) ==
    IF k > Len(sets) THEN table
    ELSE score_all(score_set(table, sets[k], 1, test_target, test_treatment),
                   sets, k + 1, test_target, test_treatment)

\* [err, table]: _calculate_ml_metric(test_target, test_treatment) on a cache
_calculate_ml_metric(table, cache, test_target, test_treatment) ==
    LET gen == _bl_for_ml(cache)
    IN  IF gen.err # ""
        THEN [err |-> gen.err, table |-> table]
        ELSE [err |-> "", table |-> score_all(table, gen.sets, 1, test_target, test_treatment)]

\* MUTANT of CalculateMlMetric: the table is scored inside the training loop, which
\* goes on when the generator has more to yield
CalculateMlMetric_in_loop ==
    /\ pc = "metric"
    /\ LET test_treatment == test_treatment_of(data)
           test_target == test_target_of(data)
           res == _calculate_ml_metric(_metalearner_metrics, _trained_stage_baselearners,
                                       test_treatment, test_target)
       IN  /\ _metalearner_metrics' = res.table
           /\ IF res.err # ""
              THEN pc' = "error" /\ error' = res.err
              ELSE pc' = (IF gen_pc = "end" THEN "best" ELSE "train") /\ error' = error
    /\ UNCHANGED <<cfg_vars, arg_vars, api_vars, greedy_vars, gen_vars, last_stage_info,
                   last_fit_predict, warned, _trained_stage_baselearners,
                   _best_metalearner, _best_metalearner_wrap>>

\* fit calls self._calculate_ml_metric(test_treatment, test_target)
CalculateMlMetric ==
    /\ pc = "metric"
    /\ LET test_treatment == test_treatment_of(data)
           test_target == test_target_of(data)
           res == _calculate_ml_metric(_metalearner_metrics, _trained_stage_baselearners,
                                       test_treatment, test_target)
       IN  /\ _metalearner_metrics' = res.table
           /\ IF res.err # ""
              THEN pc' = "error" /\ error' = res.err
              ELSE pc' = "best" /\ error' = error
    /\ UNCHANGED <<cfg_vars, arg_vars, api_vars, greedy_vars, gen_vars, last_stage_info,
                   last_fit_predict, warned, _trained_stage_baselearners,
                   _best_metalearner, _best_metalearner_wrap>>

(***************************************************************************)
(* The Best-Strategy Materializer: _set_best_metalearner, _init_metalearner,*)
(* _get_trained_bl and _create_metalearner_wrap.                           *)
(***************************************************************************)
\* MUTANT of better: the comparison also replaces the best on an equal score
better_or_equal(incr, best_metric_value, v) ==
    (incr /\ best_metric_value <= v) \/ (~incr /\ best_metric_value >= v)

\* the test of the elif branch: v replaces the best found so far
better(incr, best_metric_value, v) ==
    (incr /\ best_metric_value < v) \/ (~incr /\ best_metric_value > v)

\* index of best_candidate after the loop over the first k entries; 0 stands for None
RECURSIVE best_index(_, _, _)
best_index(table, incr, k) ==
    IF k = 0 THEN 0
    ELSE LET b == best_index(table, incr, k - 1)
         IN  IF b = 0 THEN k
             ELSE IF better(incr, table[b].metric, table[k].metric) THEN k
             ELSE b

\* dict(stages_params)[fn]
stages_params_get(sbls, fn) ==
    sbls[CHOOSE i \in 1..Len(sbls) : sbls[i][1] = fn][2]

\* MUTANT of _get_trained_bl: the last record with that name is returned
_get_trained_bl_last(cache, metalearner_stage, baselearner_name) ==
    LET Named(r) == r.stage_bl = baselearner_name
        hits == SelectSeq(Get(cache, metalearner_stage), Named)
    IN  IF hits = <<>> THEN <<>> ELSE <<hits[Len(hits)]>>

\* the first record of the stage whose candidate has the given name, as a one-element
\* sequence; <<>> stands for the raised exception
_get_trained_bl(cache, metalearner_stage, baselearner_name) ==
    LET Named(r) == r.stage_bl = baselearner_name
        hits == SelectSeq(Get(cache, metalearner_stage), Named)
    IN  IF hits = <<>> THEN <<>> ELSE <<hits[1]>>

\* the constructor arguments of TLearner / XLearner, each learner looked up by
\* _get_trained_bl and projected on the given field (trained_model or stage_bl)
learner_params(cache, metalearner_name, bls, field) ==
    LET L(fn) == _get_trained_bl(cache, fn, stages_params_get(bls, fn))[1][field]
    IN  IF metalearner_name = "TLearner"
        THEN << [key |-> "control_learner", is_list |-> FALSE, value |-> <<L(OC)>>],
                [key |-> "treatment_learner", is_list |-> FALSE, value |-> <<L(OT)>>] >>
        ELSE << [key |-> "outcome_learners", is_list |-> TRUE, value |-> <<L(OC), L(OT)>>],
                [key |-> "effect_learners", is_list |-> TRUE, value |-> <<L(EC), L(ET)>>],
                [key |-> "propensity_learner", is_list |-> FALSE, value |-> <<L(PR)>>] >>

\* every lookup _init_metalearner / _create_metalearner_wrap makes finds a record
lookups_succeed(cache, metalearner_name, bls) ==
    LET needed == IF metalearner_name = "TLearner" THEN {OC, OT} ELSE {OC, OT, PR, EC, ET}
    IN  \A fn \in needed : _get_trained_bl(cache, fn, stages_params_get(bls, fn)) # <<>>

_init_metalearner(cache, metalearner_name, bls) ==
    [ml |-> metalearner_name,
     params |-> learner_params(cache, metalearner_name, bls, "trained_model")]

_create_metalearner_wrap(cache, metalearner_name, bls) ==
    [name |-> <<"__ML__", metalearner_name>>,
     klass |-> metalearner_name,
     params |-> learner_params(cache, metalearner_name, bls, "stage_bl")]

SetBestMetalearner ==
    /\ pc = "best"
    /\ LET b == best_index(_metalearner_metrics, increasing_metric, Len(_metalearner_metrics))
       IN  IF b = 0
           THEN /\ pc' = "error"
                /\ error' = "TypeError"
                /\ UNCHANGED <<_best_metalearner, _best_metalearner_wrap>>
           ELSE LET ml_name == _metalearner_metrics[b].ml
                    stages_params == _metalearner_metrics[b].sbls
                IN  IF ml_name \notin {"TLearner", "XLearner"}
                       \/ ~lookups_succeed(_trained_stage_baselearners, ml_name, stages_params)
                    THEN /\ pc' = "error"
                         /\ error' = "Exception"
                         /\ UNCHANGED <<_best_metalearner, _best_metalearner_wrap>>
                    ELSE /\ pc' = "done"
                         /\ error' = error
                         /\ _best_metalearner' =
                               _init_metalearner(_trained_stage_baselearners, ml_name, stages_params)
                         /\ _best_metalearner_wrap' =
                               _create_metalearner_wrap(_trained_stage_baselearners, ml_name, stages_params)
    /\ UNCHANGED <<cfg_vars, arg_vars, api_vars, greedy_vars, gen_vars, last_stage_info,
                   last_fit_predict, warned, _trained_stage_baselearners,
                   _metalearner_metrics>>

\* Series.rank(method='first', ascending=False): the rank of every entry, the largest
\* value first, equal values in the order they appear
rank_first_descending(metrics) ==
    [i \in 1..Len(metrics) |->
        1 + Cardinality({j \in 1..Len(metrics) : metrics[j] > metrics[i]})
          + Cardinality({j \in 1..(i - 1) : metrics[j] = metrics[i]})]

\* AutoUpliftTX.get_metalearners_ranting: the rows of the score table sorted by Rank
get_metalearners_ranting(table) ==
    LET rank == rank_first_descending([e \in 1..Len(table) |-> table[e].metric])
    IN  [p \in 1..Len(table) |->
            LET e == CHOOSE e \in 1..Len(table) : rank[e] = p
            IN  [MetaLearner |-> table[e].ml,
                 Parameters |-> table[e].sbls,
                 Metrics |-> table[e].metric,
                 Rank |-> p]]

(***************************************************************************)
(* The public calls around fit: predict and create_best_metalearner, with  *)
(* Wrapper.__call__, Wrapper.update_params and                             *)
(* MetaLearnerWrapper.update_baselearner_params.                           *)
(* Wrapper objects live in a heap (a sequence of [name, params]); a params *)
(* dict is a sequence of [key, value] in insertion order; a                *)
(* MetaLearnerWrapper is [name, klass, params] whose parameter values are  *)
(* places in the heap.                                                     *)
(***************************************************************************)
\* Wrapper.update_params on the object at place r
update_params(h, r, d) == [h EXCEPT ![r].params = dict_update(@, d)]

\* the stages whose wrappers _create_metalearner_wrap stores under a parameter
param_stages(key) ==
    IF key = "control_learner" THEN <<OC>>
    ELSE IF key = "treatment_learner" THEN <<OT>>
    ELSE IF key = "outcome_learners" THEN <<OC, OT>>
    ELSE IF key = "effect_learners" THEN <<EC, ET>>
    ELSE <<PR>>

\* position of the candidate with the given display name in a candidate list
index_of(bls, name) == CHOOSE k \in 1..Len(bls) : bls[k] = name

\* _best_metalearner_wrap with each stage_bl given by the place of the wrapper object
\* the cache record refers to (the object listed in stage_baselearners)
wrap_objects(sb, wrap) ==
    [name |-> wrap.name,
     klass |-> wrap.klass,
     params |-> [p \in 1..Len(wrap.params) |->
        [key |-> wrap.params[p].key,
         is_list |-> wrap.params[p].is_list,
         value |-> [v \in 1..Len(wrap.params[p].value) |->
            LET fn == param_stages(wrap.params[p].key)[v]
            IN  wrapper_ref(sb, fn, index_of(Get(sb, fn), wrap.params[p].value[v]))]]]]

\* the places a MetaLearnerWrapper refers to
wrap_places(w) ==
    UNION {{w.params[p].value[v] : v \in 1..Len(w.params[p].value)} : p \in 1..Len(w.params)}

\* deepcopy of a MetaLearnerWrapper: [heap, wrap], every object it refers to copied once
deepcopy(h, w) ==
    LET olds == wrap_places(w)
        new_place(r) == Len(h) + Cardinality({q \in olds : q <= r})
    IN  [heap |-> [a \in 1..(Len(h) + Cardinality(olds)) |->
                      IF a <= Len(h) THEN h[a]
                      ELSE h[CHOOSE r \in olds : new_place(r) = a]],
         wrap |-> [w EXCEPT !.params =
                      [p \in 1..Len(w.params) |->
                          [w.params[p] EXCEPT !.value =
                              [v \in 1..Len(w.params[p].value) |->
                                  new_place(w.params[p].value[v])]]]]]

\* the loop "for x in v" of update_baselearner_params over the places of a list
RECURSIVE update_list(_, _, _)
update_list(h, places, d) ==
    IF places = <<>> THEN h
    ELSE update_list(update_params(h, Head(places), d), Tail(places), d)

\* [heap, new_params] after the loop of update_baselearner_params over params[i..]
RECURSIVE update_from(_, _, _, _, _)
update_from(h, params, d, i, new_params) ==
    IF i > Len(params) THEN [heap |-> h, new_params |-> new_params]
    ELSE IF ~params[i].is_list
    THEN LET v == params[i].value[1]
             v_t == Len(h) + 1
             copied == Append(h, h[v])
         IN  update_from(update_params(copied, v, d), params, d, i + 1,
                         Append(new_params, [params[i] EXCEPT !.value = <<v_t>>]))
    ELSE update_from(update_list(h, params[i].value, d), params, d, i + 1,
                     Append(new_params, params[i]))

\* MetaLearnerWrapper.update_baselearner_params: [heap, wrap]
update_baselearner_params(h, w, d) ==
    LET res == update_from(h, w.params, d, 1, <<>>)
    IN  [heap |-> res.heap, wrap |-> [w EXCEPT !.params = res.new_params]]

\* Wrapper.__call__ of a MetaLearnerWrapper: klass(**init_params), every nested
\* wrapper instantiated with a copy of its params
Wrapper_call(h, w) ==
    [klass |-> w.klass,
     init_params |-> [p \in 1..Len(w.params) |->
        [key |-> w.params[p].key,
         is_list |-> w.params[p].is_list,
         value |-> [v \in 1..Len(w.params[p].value) |->
            [name |-> h[w.params[p].value[v]].name,
             init_params |-> h[w.params[p].value[v]].params]]]]]

\* MUTANT of create_best_metalearner: the stored specification is not copied
create_best_metalearner_in_place(h, sb, c, wrap, need_report, d) ==
    IF Len(c) = 0
    THEN [raised |-> "AssertionError", result |-> <<>>, heap |-> h]
    ELSE IF wrap = <<>>
    THEN [raised |-> "AttributeError", result |-> <<>>, heap |-> h]
    ELSE LET ml_wrap == [heap |-> h, wrap |-> wrap_objects(sb, wrap)]
             upd == IF d # <<>>
                    THEN update_baselearner_params(ml_wrap.heap, ml_wrap.wrap, d)
                    ELSE ml_wrap
             best_metalearner_raw == Wrapper_call(upd.heap, upd.wrap)
             kept == SubSeq(upd.heap, 1, Len(h))
         IN  IF need_report
             THEN [raised |-> "", result |-> <<[rdu |-> best_metalearner_raw]>>, heap |-> kept]
             ELSE [raised |-> "UnboundLocalError", result |-> <<>>, heap |-> kept]

\* AutoUpliftTX.create_best_metalearner: [raised, result, heap]; heap is the part of
\* the heap that is still referred to after the call
create_best_metalearner(h, sb, c, wrap, need_report, d) ==
    IF Len(c) = 0
    THEN [raised |-> "AssertionError", result |-> <<>>, heap |-> h]
    ELSE IF wrap = <<>>
    THEN [raised |-> "AttributeError", result |-> <<>>, heap |-> h]
    ELSE LET ml_wrap == deepcopy(h, wrap_objects(sb, wrap))
             upd == IF d # <<>>
                    THEN update_baselearner_params(ml_wrap.heap, ml_wrap.wrap, d)
                    ELSE ml_wrap
             best_metalearner_raw == Wrapper_call(upd.heap, upd.wrap)
             kept == SubSeq(upd.heap, 1, Len(h))
         IN  IF need_report
             THEN [raised |-> "", result |-> <<[rdu |-> best_metalearner_raw]>>, heap |-> kept]
             ELSE [raised |-> "UnboundLocalError", result |-> <<>>, heap |-> kept]

\* MUTANT of AutoUpliftTX_predict: an unset predictor is not noticed
AutoUpliftTX_predict_unchecked(bm) == ""

\* AutoUpliftTX.predict: the exception it raises, "" when it returns the prediction
AutoUpliftTX_predict(bm) ==
    IF bm = <<>> THEN "AttributeError" ELSE ""

\* fit has not been called yet
fit_not_started == pc = "train" /\ last_stage_info = <<>> /\ n_runs = 0

\* no call of fit is running: a public method can be called
ApiCallable == fit_not_started \/ pc \in {"done", "error"}

\* the update_metalearner_params arguments
Overrides ==
    { <<>>, <<[key |-> "timeout", value |-> 1]>>, <<[key |-> "timeout", value |-> 2]>> }

Predict ==
    /\ ApiCallable
    /\ last_call' = [op |-> "predict", raised |-> AutoUpliftTX_predict(_best_metalearner)]
    /\ UNCHANGED <<cfg_vars, arg_vars, gen_vars, fit_vars, greedy_vars, heap, returned>>

CreateBestMetalearner ==
    /\ ApiCallable
    /\ Len(returned) < MaxCalls
    /\ \E need_report \in BOOLEAN, d \in Overrides :
          LET res == create_best_metalearner(heap, stage_baselearners,
                         _trained_stage_baselearners, _best_metalearner_wrap, need_report, d)
          IN  /\ heap' = res.heap
              /\ returned' = IF res.raised = ""
                             THEN Append(returned, [d |-> d, result |-> res.result[1]])
                             ELSE returned
              /\ last_call' = [op |-> "create_best_metalearner", raised |-> res.raised]
    /\ UNCHANGED <<cfg_vars, arg_vars, gen_vars, fit_vars, greedy_vars>>

Next ==
    \/ SubmitL1
    \/ DrawL2
    \/ DrawDrain
    \/ GeneratorEnd
    \/ CalculateMlMetric
    \/ SetBestMetalearner

Spec == Init /\ [][Next]_vars

\* number of submissions of a complete run over a stage dict
RunLength(sb) ==
    FullRun(Len(Get(sb, OC)), Len(Get(sb, OT)), Len(Get(sb, PR)),
            Len(Get(sb, EC)), Len(Get(sb, ET)))

\* the baselearners arguments that leave stages to the predefined candidates
DefaultedBaselearners ==
    { [kind |-> "none", value |-> <<>>],
      [kind |-> "list", value |-> <<1>>],
      [kind |-> "dict", value |-> <<[stage |-> OC, bls |-> <<1>>],
                                    [stage |-> OT, bls |-> <<1>>]>>] }

\* the arguments of the specification of the public calls: every stage listed with
\* a short complete run; stages left to the predefined candidates with a zero budget;
\* a restriction to the two-stage strategy with one candidate for every stage
InitApi ==
    /\ \/ \E n \in [{OC, OT, PR, EC, ET} -> 0..MaxCands], t \in {NoTimeout, 1} :
             /\ FullRun(n[OC], n[OT], n[PR], n[EC], n[ET]) <= MaxSubsApi
             /\ InitTX(FullDict(<<OC, OT, PR, EC, ET>>, n), <<>>, <<OC, OT, PR, EC, ET>>, t)
       \/ \E bl_arg \in DefaultedBaselearners, order \in StageOrders,
             ml_arg \in {<<>>, <<"TLearner">>} :
             InitTX(bl_arg, ml_arg, order, 0)
       \/ \E order \in StageOrders :
             InitTX(FullDict(order, [fn \in {OC, OT, PR, EC, ET} |-> 1]), <<"TLearner">>,
                    order, NoTimeout)
    /\ GreedyIdle

NextApi ==
    \/ Next
    \/ Predict
    \/ CreateBestMetalearner

SpecApi == InitApi /\ [][NextApi]_vars

(***************************************************************************)
(* AutoUplift, the greedy search: __init__ and fit.  A candidate is given  *)
(* by its display name; add_dd_candidates is at its default False.         *)
(***************************************************************************)
\* the display names of the five predefined candidates, in list order
\* (__TLearner__Default__, __XLearner__Default__, __TLearner__TabularAutoML__,
\* __XLearner__Propensity_Linear__Other_TabularAutoML__, __XLearner__TabularAutoML__)
_default_uplift_candidates == CandList(5)

\* the held-out uplift predictions metalearner.predict(test_data) can give
UpliftPreds == (0 - MaxPred)..MaxPred

\* the AutoUpliftTX object is not in use
TXIdle ==
    /\ baselearners = [kind |-> "none", value |-> <<>>]
    /\ metalearners = <<>>
    /\ stage_baselearners = <<>>
    /\ heap = <<>>
    /\ pc = "idle"
    /\ error = ""
    /\ gen_pc = "end"
    /\ round = 1
    /\ l1idx = 1
    /\ pool_iter_levels = <<>>
    /\ first_run = TRUE
    /\ n_runs = 0
    /\ l2_left = 0
    /\ last_stage_info = <<>>
    /\ last_fit_predict = <<>>
    /\ warned = FALSE
    /\ _trained_stage_baselearners = <<>>
    /\ _metalearner_metrics = <<>>
    /\ _best_metalearner = <<>>
    /\ _best_metalearner_wrap = <<>>
    /\ returned = <<>>
    /\ last_call = [op |-> "__init__", raised |-> ""]
    /\ caller_train = train_of(data)
    /\ caller_roles = roles_of_fit

\* AutoUplift(uplift_candidates=cands, timeout=t) before fit
InitAutoUplift(cands, t) ==
    /\ timeout = t
    /\ increasing_metric \in BOOLEAN
    /\ data \in 0..MaxData
    /\ checkout_timeout = (Len(cands) = 0)
    /\ uplift_candidates = cands
    /\ candidate_holdout_metrics = <<>>
    /\ g_pc = "init"
    /\ idx_candidate = 0
    /\ best_metalearner_candidate_info = None
    /\ max_metric_value = 0

InitGreedy ==
    /\ \E n \in 0..MaxUser, t \in {NoTimeout, 0, 1} : InitAutoUplift(CandList(n), t)
    /\ TXIdle

\* AutoUplift.fit up to the loop: the locals are set, the predefined candidates are
\* generated when the caller gave none, the metrics list is reset, the timer starts
AutoUplift_fit_start ==
    /\ g_pc = "init"
    /\ best_metalearner_candidate_info' = None
    /\ max_metric_value' = 0
    /\ uplift_candidates' = IF Len(uplift_candidates) = 0
                            THEN _default_uplift_candidates
                            ELSE uplift_candidates
    /\ candidate_holdout_metrics' = [i \in 1..Len(uplift_candidates') |-> <<>>]
    /\ idx_candidate' = 0
    /\ g_pc' = IF Len(uplift_candidates') = 0 THEN "done" ELSE "loop"
    /\ UNCHANGED <<checkout_timeout, cfg_vars, arg_vars, gen_vars, fit_vars, api_vars>>

\* one iteration of the loop of AutoUplift.fit: the candidate is fitted and scored,
\* the best candidate is updated, and the timer is asked; after the last iteration
\* or the break, fit stores the best candidate and returns
AutoUplift_fit_loop ==
    /\ g_pc = "loop"
    /\ \E uplift_pred \in UpliftPreds, exceeded \in time_limit_exceeded(timeout) :
          LET candidate_info == uplift_candidates[idx_candidate + 1]
              metric_value == calculate_uplift_auc(test_target_of(data), uplift_pred,
                                                   test_treatment_of(data))
          IN  /\ candidate_holdout_metrics' =
                    [candidate_holdout_metrics EXCEPT ![idx_candidate + 1] = <<metric_value>>]
              /\ IF best_metalearner_candidate_info = None
                 THEN /\ best_metalearner_candidate_info' = candidate_info
                      /\ max_metric_value' = max_metric_value
                 ELSE IF max_metric_value < metric_value
                 THEN /\ best_metalearner_candidate_info' = candidate_info
                      /\ max_metric_value' = metric_value
                 ELSE /\ best_metalearner_candidate_info' = best_metalearner_candidate_info
                      /\ max_metric_value' = max_metric_value
              /\ IF exceeded \/ idx_candidate + 1 = Len(uplift_candidates)
                 THEN g_pc' = "done" /\ idx_candidate' = idx_candidate
                 ELSE g_pc' = "loop" /\ idx_candidate' = idx_candidate + 1
    /\ UNCHANGED <<uplift_candidates, checkout_timeout, cfg_vars, arg_vars, gen_vars,
                   fit_vars, api_vars>>

NextGreedy ==
    \/ AutoUplift_fit_start
    \/ AutoUplift_fit_loop

SpecGreedy == InitGreedy /\ [][NextGreedy]_vars

(***************************************************************************)
(* The stage trainer on its own: _evaluate called directly on a newly      *)
(* constructed AutoUpliftTX, with any stage chain, in any order.           *)
(***************************************************************************)
cache == _trained_stage_baselearners

\* number of records in the cache
NRecords == 
    LET RECURSIVE Sum(_)
        Sum(i) == IF i = 0 THEN 0 ELSE Len(cache[i].bls) + Sum(i - 1)
    IN  Sum(Len(cache))

\* the stage chains _evaluate accepts: (stage, candidate) for a first-level stage and
\* ((prerequisite stage, candidate), (stage, candidate)) for a second-level stage
StageInfos ==
    LET stages == MAP_META_TO_STAGES[2].stages
        S == {stages[i] : i \in 1..Len(stages)}
    IN  {<<[stage |-> st, bl |-> b]>> :
            st \in {x \in S : x.prev_stage = <<>>}, b \in 1..MaxCands}
        \cup
        {<<[stage |-> st.prev_stage[1], bl |-> pb], [stage |-> st, bl |-> b]>> :
            st \in {x \in S : x.prev_stage # <<>>}, pb \in 1..MaxCands, b \in 1..MaxCands}

\* AutoUpliftTX() after __init__: an empty cache and an empty score table
InitTrainer ==
    /\ data \in 0..Degenerate
    /\ timeout = NoTimeout
    /\ increasing_metric = TRUE
    /\ TXIdle
    /\ GreedyIdle

\* self._evaluate(stage_info, train, test, roles); error holds the exception the
\* call raised, "" when it returned
Evaluate ==
    \E stage_info \in StageInfos :
        LET ev == _evaluate(_trained_stage_baselearners, stage_info, data,
                            caller_train, caller_roles)
        IN  /\ pc = "idle"
            /\ NRecords < MaxEvals
            /\ _trained_stage_baselearners' = ev.cache
            /\ error' = ev.err
            /\ last_stage_info' = stage_info
            /\ last_fit_predict' = ev.fit_predict
            /\ caller_train' = ev.train
            /\ caller_roles' = ev.roles
            /\ UNCHANGED <<cfg_vars, gen_vars, api_vars, greedy_vars, pc, warned,
                           _metalearner_metrics, _best_metalearner, _best_metalearner_wrap>>

SpecTrainer == InitTrainer /\ [][Evaluate]_vars

(***************************************************************************)
(* _metalearner_predict on its own: called with any strategy type name and *)
(* any records for the five stages.                                        *)
(***************************************************************************)
\* the strategy type names of the calls: the two of __MAP_META_TO_STAGES__ and another
MetalearnerNames == {"TLearner", "XLearner", "RLearner"}

\* the held-out prediction of a record
StagePreds == 0..MaxPred

\* a baselearners dict with one record per stage, the record of fn holding pred[fn]
BaselearnersDict(pred) ==
    LET fns == <<OC, OT, PR, EC, ET>>
    IN  [i \in 1..5 |->
            [stage |-> fns[i],
             rec |-> [stage_bl |-> 1,
                      prev_stage_bl |-> IF Len(fns[i]) = 2 THEN 1 ELSE None,
                      trained_model |-> <<fns[i], 1, IF Len(fns[i]) = 2 THEN 1 ELSE None>>,
                      pred |-> pred[fns[i]]]]]

\* self._metalearner_predict(metalearner, baselearners); the call reads its arguments
\* only, so one call per behaviour covers every call
MetalearnerPredict ==
    \E metalearner \in MetalearnerNames, pred \in [{OC, OT, PR, EC, ET} -> StagePreds] :
        LET stage_bls == BaselearnersDict(pred)
            res == _metalearner_predict(metalearner, stage_bls)
        IN  /\ pc = "idle"
            /\ last_call.op = "__init__"
            /\ last_call' = [op |-> "_metalearner_predict",
                             metalearner |-> metalearner,
                             baselearners |-> stage_bls,
                             raised |-> res.err]
            /\ returned' = IF res.err = "" THEN <<res.uplift_pred>> ELSE <<>>
            /\ UNCHANGED <<cfg_vars, arg_vars, gen_vars, fit_vars, greedy_vars, heap>>

SpecPredict == InitTrainer /\ [][MetalearnerPredict]_vars

(***************************************************************************)
(* Properties.                                                             *)
(***************************************************************************)
\* the message of the exception _bl_for_ml raises
NoFeasible == "No one metalearner can predict."

\* some strategy has at least one record for every one of its stages
Feasible ==
    \E m \in 1..Len(MAP_META_TO_STAGES) :
        \A k \in 1..Len(MAP_META_TO_STAGES[m].stages) :
            Len(Get(cache, full_name(MAP_META_TO_STAGES[m].stages[k]))) >= 1

\* C1: a second-level submission is handed to the Stage Trainer only when the cache
\* holds a record of its prerequisite stage trained with its prerequisite candidate;
\* the lookup of the prerequisite record never fails
C1_PrerequisiteTrainedFirst ==
    /\ error # "IndexError"
    /\ Len(last_stage_info) = 2 =>
          \E i \in 1..Len(Get(cache, full_name(last_stage_info[1].stage))) :
              Get(cache, full_name(last_stage_info[1].stage))[i].stage_bl = last_stage_info[1].bl

\* a second-level pair conditioned on the second candidate of a prerequisite stage
\* holding two records has just been trained
C1_Witness ==
    /\ pc = "train"
    /\ Len(last_stage_info) = 2
    /\ last_stage_info[1].bl = 2
    /\ Len(Get(cache, full_name(last_stage_info[1].stage))) = 2
    /\ Len(Get(cache, full_name(last_stage_info[2].stage))) >= 1

\* C2 (as first stated): the cache never holds two records with the same
\* (stage full identity, candidate display name) pair
C2_NoDuplicateStageCandidate ==
    \A k \in 1..Len(cache) :
        \A i, j \in 1..Len(cache[k].bls) :
            i # j => cache[k].bls[i].stage_bl # cache[k].bls[j].stage_bl

\* C2 (amended): the cache never holds two records with the same (stage full identity,
\* prerequisite candidate, candidate display name) triple
C2_NoDuplicateTriple ==
    \A k \in 1..Len(cache) :
        \A i, j \in 1..Len(cache[k].bls) :
            i # j => \/ cache[k].bls[i].stage_bl # cache[k].bls[j].stage_bl
                     \/ cache[k].bls[i].prev_stage_bl # cache[k].bls[j].prev_stage_bl

\* a finished run whose cache holds, for a second-level stage, the same candidate
\* trained against two prerequisite candidates, and two candidates of a first-level stage
C2_Witness ==
    /\ pc = "done"
    /\ \E k \in 1..Len(cache) :
          /\ Len(cache[k].stage) = 2
          /\ \E i, j \in 1..Len(cache[k].bls) :
                /\ cache[k].bls[i].stage_bl = cache[k].bls[j].stage_bl
                /\ cache[k].bls[i].prev_stage_bl # cache[k].bls[j].prev_stage_bl
    /\ \E k \in 1..Len(cache) : Len(cache[k].stage) = 1 /\ Len(cache[k].bls) = 2

\* C3: once fit has reported the budget exceeded no further training event happens
\* (with a zero budget at most one event is trained), the condition is no error, and
\* fit assembles, scores and selects from the records collected so far, succeeding
\* whenever some strategy has a record for each of its stages
C3_BudgetStop ==
    /\ [](timeout = 0 => NRecords <= 1)
    /\ [](warned => \/ pc \in {"metric", "best", "done"}
                    \/ (pc = "error" /\ error = NoFeasible /\ ~Feasible))
    /\ [](warned /\ pc = "done" => _best_metalearner # <<>> /\ _metalearner_metrics # <<>>)
    /\ [][warned => /\ _trained_stage_baselearners' = _trained_stage_baselearners
                    /\ last_stage_info' = last_stage_info
                    /\ (pc = "metric" /\ Feasible => pc' = "best")
                    /\ (pc = "best" => pc' = "done")]_vars

\* the budget stopped the run in the middle of the enumeration and fit selected a
\* strategy from the records collected so far
C3_Witness ==
    /\ warned
    /\ pc = "done"
    /\ gen_pc # "end"
    /\ NRecords >= 3
    /\ Len(pool_iter_levels) >= 1

\* everything _bl_for_ml yields for the current cache
assembled == _bl_for_ml(cache).sets

\* C4: in every strategy the cross-product assembly yields for scoring, each
\* second-level record was trained against the candidate of the first-level record
\* that the same assembly uses for the prerequisite stage
C4_PrerequisiteConsistentAssembly ==
    pc = "best" =>
        \A k \in 1..Len(assembled) :
            \A i \in 1..Len(assembled[k]) :
                LET stage_bls == assembled[k][i].stage_bls
                IN  \A q \in 1..Len(stage_bls) :
                        Len(stage_bls[q].stage) = 2 =>
                            \E r \in 1..Len(stage_bls) :
                                /\ stage_bls[r].stage = SubSeq(stage_bls[q].stage, 1, 1)
                                /\ stage_bls[r].rec.prev_stage_bl = None
                                /\ stage_bls[r].rec.stage_bl = stage_bls[q].rec.prev_stage_bl

\* the table was scored from a cache in which a prerequisite stage and a stage
\* depending on it hold records of two prerequisite candidates, and five-stage
\* strategies were assembled
C4_Witness ==
    /\ pc = "best"
    /\ \E k \in 1..Len(cache) :
          /\ Len(cache[k].stage) = 2
          /\ Len(Get(cache, SubSeq(cache[k].stage, 1, 1))) = 2
          /\ \E i, j \in 1..Len(cache[k].bls) :
                cache[k].bls[i].prev_stage_bl # cache[k].bls[j].prev_stage_bl
    /\ \E e \in 1..Len(_metalearner_metrics) : _metalearner_metrics[e].ml = "XLearner"

\* the candidate name the selected specification holds for a stage
WrapName(fn) ==
    LET params == _best_metalearner_wrap.params
    IN  IF _best_metalearner_wrap.klass = "TLearner"
        THEN IF fn = OC THEN params[1].value[1] ELSE params[2].value[1]
        ELSE IF fn = OC THEN params[1].value[1]
        ELSE IF fn = OT THEN params[1].value[2]
        ELSE IF fn = EC THEN params[2].value[1]
        ELSE IF fn = ET THEN params[2].value[2]
        ELSE params[3].value[1]

\* the score-table entries whose key is the selected strategy
SelectedEntries ==
    {e \in 1..Len(_metalearner_metrics) :
        /\ _metalearner_metrics[e].ml = _best_metalearner_wrap.klass
        /\ \A q \in 1..Len(_metalearner_metrics[e].sbls) :
              _metalearner_metrics[e].sbls[q][2] = WrapName(_metalearner_metrics[e].sbls[q][1])}

\* C5 (as stated): every model of the fitted predictor comes from the record that
\* took part in the winning assembly: it was trained for the winning candidate of its
\* stage and, for a second-level stage, against the winning prerequisite candidate
C5_PredictorFromWinningRecords ==
    pc = "done" =>
        \A p \in 1..Len(_best_metalearner.params) :
            \A v \in 1..Len(_best_metalearner.params[p].value) :
                LET model == _best_metalearner.params[p].value[v]
                IN  /\ model[2] = WrapName(model[1])
                    /\ model[3] = IF Len(model[1]) = 2
                                  THEN WrapName(SubSeq(model[1], 1, 1))
                                  ELSE None

\* C6: the selected entry is extremal under the configured direction and is the
\* first entry of the score table with that score
C6_ExtremalFirstEncountered ==
    pc = "done" =>
        /\ Cardinality(SelectedEntries) = 1
        /\ \A b \in SelectedEntries :
              \A e \in 1..Len(_metalearner_metrics) :
                  /\ increasing_metric =>
                        _metalearner_metrics[e].metric <= _metalearner_metrics[b].metric
                  /\ ~increasing_metric =>
                        _metalearner_metrics[e].metric >= _metalearner_metrics[b].metric
                  /\ e < b => _metalearner_metrics[e].metric # _metalearner_metrics[b].metric

\* a lower-is-better selection from a table with several scores in which the
\* extremal score occurs more than once and the selected entry is not the first entry
C6_Witness ==
    /\ pc = "done"
    /\ ~increasing_metric
    /\ \E b \in SelectedEntries :
          /\ b > 1
          /\ \E e \in 1..Len(_metalearner_metrics) :
                e > b /\ _metalearner_metrics[e].metric = _metalearner_metrics[b].metric
          /\ \E e \in 1..Len(_metalearner_metrics) :
                _metalearner_metrics[e].metric # _metalearner_metrics[b].metric

\* a higher-is-better selection with a tie on the extremal score
C6_WitnessIncreasing ==
    /\ pc = "done"
    /\ increasing_metric
    /\ \E b \in SelectedEntries :
          /\ b > 1
          /\ \E e \in 1..Len(_metalearner_metrics) :
                e > b /\ _metalearner_metrics[e].metric = _metalearner_metrics[b].metric

\* the submission a pool entry yields when it is drawn
Yielded(entry) ==
    <<entry.stage, entry.bl_l1, Get(stage_baselearners, entry.stage)[entry.it + 1]>>

\* the pool entries whose iterator is not exhausted
Pending ==
    {i \in 1..Len(pool_iter_levels) :
        pool_iter_levels[i].it < Len(Get(stage_baselearners, pool_iter_levels[i].stage))}

\* C7 (as stated): two runs with the same configuration and data that have made the
\* same submissions so far make the same next submission, whichever pool entry the
\* random draw selects
C7_SubmissionsIndependentOfDraws ==
    (pc = "train" /\ gen_pc \in {"l2", "drain"}) =>
        \A i, j \in Pending : Yielded(pool_iter_levels[i]) = Yielded(pool_iter_levels[j])

\* number of two-stage entries of the score table
TLearnerEntries ==
    Cardinality({e \in 1..Len(_metalearner_metrics) : _metalearner_metrics[e].ml = "TLearner"})

C9_NoFeasibleStrategyFails ==
    /\ [](pc \in {"best", "done"} => Feasible)
    /\ [](error = NoFeasible =>
            /\ pc = "error"
            /\ ~Feasible
            /\ _metalearner_metrics = <<>>
            /\ _best_metalearner = <<>>
            /\ _best_metalearner_wrap = <<>>)
    /\ [][pc = "metric" /\ ~Feasible => pc' = "error" /\ error' = NoFeasible]_vars

\* a zero budget left a single record of one stage and assembly failed
C9_Witness ==
    /\ pc = "error"
    /\ error = NoFeasible
    /\ timeout = 0
    /\ NRecords = 1

\* C10 (as stated): the scheduler never emits a pair of a stage with an absent
\* candidate, and an exhausted or empty first-level list does not end the training of
\* the other stages
C10_ExhaustedStageContributesNothing ==
    /\ \A i \in 1..Len(last_stage_info) : last_stage_info[i].bl # None
    /\ pc = "error" => error = NoFeasible

\* the learner instances of a returned metalearner
LearnersOf(ml) ==
    UNION {{ml.init_params[p].value[v] : v \in 1..Len(ml.init_params[p].value)} :
              p \in 1..Len(ml.init_params)}

\* C11 (as stated): in what create_best_metalearner returns for a non-empty override,
\* every nested base model carries the override, those held directly as a parameter
\* value and those held inside lists
C11_OverrideAppliedToEveryWrapper ==
    \A i \in 1..Len(returned) :
        returned[i].d # <<>> =>
            \A learner \in LearnersOf(returned[i].result.rdu) :
                \E e \in 1..Len(learner.init_params) :
                    learner.init_params[e] = returned[i].d[1]

\* what a call with override d returns in the current state
FreshResult(d) ==
    create_best_metalearner(heap, stage_baselearners, _trained_stage_baselearners,
                            _best_metalearner_wrap, TRUE, d).result[1]

\* C12: a call of create_best_metalearner leaves the stored specification, the
\* candidate wrappers the cache records refer to and the trained models unchanged,
\* and everything returned so far is what a single call with the same override
\* returns: calls with different overrides do not influence each other
C12_CreateLeavesOriginalsUnchanged ==
    /\ [][pc = "done" => /\ heap' = heap
                         /\ _best_metalearner_wrap' = _best_metalearner_wrap
                         /\ _best_metalearner' = _best_metalearner
                         /\ _trained_stage_baselearners' = _trained_stage_baselearners]_vars
    /\ [](\A i \in 1..Len(returned) : returned[i].result = FreshResult(returned[i].d))

\* two calls with different overrides have returned a five-stage specification
C12_Witness ==
    /\ pc = "done"
    /\ Len(returned) = 2
    /\ returned[1].d # <<>>
    /\ returned[2].d # <<>>
    /\ returned[1].d # returned[2].d
    /\ _best_metalearner_wrap.klass = "XLearner"

\* C13: predict and create_best_metalearner return only after a fit that completed
\* scoring and selection; invoked before fit or after a fit that failed they raise
\* and return nothing
C13_CallsBeforeSelectionFail ==
    /\ [](last_call.op \in {"predict", "create_best_metalearner"} /\ last_call.raised = ""
             => pc = "done")
    /\ [](returned # <<>> => pc = "done")
    /\ [][pc # "done" /\ last_call' # last_call =>
             last_call'.raised # "" /\ returned' = returned]_vars

\* create_best_metalearner was called after a fit that trained a stage and failed
\* during assembly
C13_Witness ==
    /\ pc = "error"
    /\ error = NoFeasible
    /\ NRecords >= 1
    /\ last_call = [op |-> "create_best_metalearner", raised |-> "AttributeError"]

\* the treatment and target columns of the roles handed to fit
treatment_column == _get_role(roles_of_fit, "treatment").col

target_column == _get_role(roles_of_fit, "target").col

\* the most recent training event was for a stage chain of the given depth
TrainedDepth(n) ==
    last_fit_predict # <<>> /\ Len(last_fit_predict.stage_info) = n

\* the name of the stage of the most recent training event
TrainedStageName ==
    last_fit_predict.stage_info[Len(last_fit_predict.stage_info)].stage.name

\* every row of the prepared slice is a row of the train split whose treatment is g
OnlyGroupRows(g) ==
    \A i \in 1..Len(last_fit_predict.train_data.rows) :
        \E j \in 1..Len(train_of(data).rows) :
            /\ train_of(data).rows[j]["x"] = last_fit_predict.train_data.rows[i]["x"]
            /\ train_of(data).rows[j][treatment_column] = g

\* C14 (as first stated): for every stage chain of depth 1 (outcome_control,
\* outcome_treatment, propensity) the prepared slice excludes the treatment column and
\* holds only rows of the stage's group
C14_Level1SliceExcludesTreatment ==
    TrainedDepth(1) =>
        /\ treatment_column \notin last_fit_predict.train_data.columns
        /\ TrainedStageName = "outcome_control" => OnlyGroupRows(0)
        /\ TrainedStageName = "outcome_treatment" => OnlyGroupRows(1)

\* C14 (amended): for outcome_control and outcome_treatment the prepared slice
\* excludes the treatment column and holds only rows of the stage's group, with their
\* original target; for propensity it keeps every row and the treatment column, which
\* becomes the training target, and excludes the original target column
C14_Level1Slice ==
    TrainedDepth(1) =>
        LET td == last_fit_predict.train_data
            train == train_of(data)
        IN  IF TrainedStageName = "propensity"
            THEN /\ td.columns = train.columns \ {target_column}
                 /\ Len(td.rows) = Len(train.rows)
                 /\ \A i \in 1..Len(td.rows) :
                       td.rows[i][treatment_column] = train.rows[i][treatment_column]
                 /\ last_fit_predict.train_roles = <<[key |-> "target", value |-> treatment_column]>>
            ELSE /\ td.columns = train.columns \ {treatment_column}
                 /\ OnlyGroupRows(IF TrainedStageName = "outcome_control" THEN 0 ELSE 1)
                 /\ \A i \in 1..Len(td.rows) : \E j \in 1..Len(train.rows) :
                       /\ train.rows[j]["x"] = td.rows[i]["x"]
                       /\ train.rows[j][target_column] = td.rows[i][target_column]
                 /\ last_fit_predict.train_roles = <<[key |-> "target", value |-> target_column]>>

\* an outcome_control candidate was trained on a slice of two rows, after a
\* propensity candidate had been trained in the same run
C14_Witness ==
    /\ TrainedDepth(1)
    /\ TrainedStageName = "outcome_control"
    /\ Len(last_fit_predict.train_data.rows) = 2
    /\ Len(Get(cache, PR)) >= 1

\* the prediction of the first-level model of candidate bl of stage fn for a row
PrerequisitePrediction(fn, bl, row) ==
    predict_rows(<<fn, bl, None>>, [columns |-> DOMAIN row, rows |-> <<row>>])[1]

\* C15: for every second-level stage the derived target of each row comes from the
\* prediction of the cached record of the prerequisite stage and prerequisite candidate
\* named in the chain: effect_control holds treatment==0 rows with target = prediction
\* minus original target, effect_treatment holds treatment==1 rows with target =
\* original target minus prediction; so the targets derived for two candidates from the
\* same prerequisite record are identical
C15_DerivedTargetFromPrerequisite ==
    TrainedDepth(2) =>
        LET si == last_fit_predict.stage_info
            td == last_fit_predict.train_data
            train == train_of(data)
            prev_fn == full_name(si[1].stage)
            g == IF TrainedStageName = "effect_control" THEN 0 ELSE 1
            GroupRow(r) == r[treatment_column] = g
        IN  /\ Cardinality({k \in 1..Len(Get(cache, prev_fn)) :
                               Get(cache, prev_fn)[k].stage_bl = si[1].bl}) = 1
            /\ td.columns = train.columns \ {treatment_column}
            /\ Len(td.rows) = Len(SelectSeq(train.rows, GroupRow))
            /\ \A i \in 1..Len(td.rows) : \E j \in 1..Len(train.rows) :
                  LET p == PrerequisitePrediction(prev_fn, si[1].bl, train.rows[j])
                  IN  /\ train.rows[j]["x"] = td.rows[i]["x"]
                      /\ train.rows[j][treatment_column] = g
                      /\ td.rows[i][target_column] =
                            IF TrainedStageName = "effect_control"
                            THEN p - train.rows[j][target_column]
                            ELSE train.rows[j][target_column] - p

\* an effect_treatment candidate was trained against the second outcome_control
\* candidate while the cache also holds the record of the first one
C15_Witness ==
    /\ TrainedDepth(2)
    /\ TrainedStageName = "effect_treatment"
    /\ last_fit_predict.stage_info[1].bl = 2
    /\ Len(Get(cache, OC)) = 2
    /\ Len(last_fit_predict.train_data.rows) = 2

\* C16: every score in the score table is the uplift metric called with the held-out
\* target in the target position and the held-out treatment in the treatment position,
\* for an assembled strategy with the entry's key
C16_ScoreUsesTargetAndTreatmentRoles ==
    _metalearner_metrics # <<>> =>
        LET sets == _bl_for_ml(_trained_stage_baselearners).sets
        IN  \A e \in 1..Len(_metalearner_metrics) :
              \E k \in 1..Len(sets) : \E i \in 1..Len(sets[k]) :
                  /\ sets[k][i].ml = _metalearner_metrics[e].ml
                  /\ sorted_sbls(sets[k][i].stage_bls) = _metalearner_metrics[e].sbls
                  /\ _metalearner_metrics[e].metric =
                        calculate_uplift_auc(
                            test_target_of(data),
                            _metalearner_predict(sets[k][i].ml, sets[k][i].stage_bls).uplift_pred,
                            test_treatment_of(data))

\* the strategy types the constructor argument lists
ListedMetalearners == {metalearners[i] : i \in 1..Len(metalearners)}

\* the full names of the stages a listed strategy type needs
RequiredStages ==
    UNION {{full_name(MAP_META_TO_STAGES[m].stages[i]) :
                i \in 1..Len(MAP_META_TO_STAGES[m].stages)} :
           m \in {m \in 1..Len(MAP_META_TO_STAGES) :
                      MAP_META_TO_STAGES[m].ml \in ListedMetalearners}}

\* C17: the metalearners argument restricts the search: only listed strategy types
\* reach the score table and are selected, and only stages a listed strategy type
\* needs are trained
C17_MetalearnersRestrictSearch ==
    /\ \A e \in 1..Len(_metalearner_metrics) :
          _metalearner_metrics[e].ml \in ListedMetalearners
    /\ \A i \in 1..Len(_trained_stage_baselearners) :
          _trained_stage_baselearners[i].stage \in RequiredStages
    /\ _best_metalearner_wrap # <<>> => _best_metalearner_wrap.klass \in ListedMetalearners

\* the display names of the predefined candidates
DefaultNames ==
    {__default_learners(NoTimeout)[k].name : k \in 1..Len(__default_learners(NoTimeout))}

\* the display names the caller configured for stage fn
ConfiguredNames(fn) ==
    IF baselearners.kind = "list"
    THEN {baselearners.value[k] : k \in 1..Len(baselearners.value)}
    ELSE IF baselearners.kind = "dict" /\ HasKey(baselearners.value, fn)
    THEN {Get(baselearners.value, fn)[k] : k \in 1..Len(Get(baselearners.value, fn))}
    ELSE DefaultNames

\* C18: the candidates trained at a stage are the ones the caller configured: those
\* of the list for a list argument, those the dict lists for a listed stage, and the
\* predefined ones only for stages the caller did not configure
C18_TrainedCandidatesAreConfigured ==
    \A i \in 1..Len(_trained_stage_baselearners) :
        \A k \in 1..Len(_trained_stage_baselearners[i].bls) :
            _trained_stage_baselearners[i].bls[k].stage_bl
                \in ConfiguredNames(_trained_stage_baselearners[i].stage)

\* the candidates fitted in the run
FittedCandidates ==
    {i \in 1..Len(candidate_holdout_metrics) : candidate_holdout_metrics[i] # <<>>}

\* C19: when the caller specified uplift_candidates the timeout is not used: fit
\* fits and scores every supplied candidate
C19_SuppliedCandidatesAllFitted ==
    (g_pc = "done" /\ ~checkout_timeout) =>
        FittedCandidates = 1..Len(uplift_candidates)

\* C20: after fit the candidate kept as best has a hold-out metric that is maximal
\* among the candidates fitted in the run
C20_BestHasMaximalMetric ==
    g_pc = "done" =>
        /\ best_metalearner_candidate_info \in FittedCandidates
        /\ \A i \in FittedCandidates :
              candidate_holdout_metrics[i][1]
                  <= candidate_holdout_metrics[best_metalearner_candidate_info][1]

\* C21: once a best strategy is selected, create_best_metalearner returns for both
\* values of need_report: no call made after a completed fit fails
C21_CreateReturnsForBothNeedReport ==
    [][(/\ pc = "done"
        /\ last_call' # last_call
        /\ last_call'.op = "create_best_metalearner") => last_call'.raised = ""]_vars

\* the slice the Stage Trainer prepares for a cached record of stage fn
SliceOfRecord(fn, rec) ==
    IF Len(fn) = 1
    THEN level1_slice(fn[1], train_of(data), roles_of_fit).train_data
    ELSE level2_slice(fn[2], <<SubSeq(fn, 1, 1), rec.prev_stage_bl, None>>,
                      train_of(data), roles_of_fit).train_data

\* C22: a stage whose training slice is empty fails fatally and appends no record:
\* every cached record, and so every record of an assembled strategy, was fitted on
\* a slice with rows; with a treatment column that is 1 in every row no
\* outcome_control record exists, nothing is scored or selected, and the
\* outcome_control submission ends fit with the cache as it was
C22_EmptySliceFailsFatally ==
    /\ [](\A k \in 1..Len(cache) : \A i \in 1..Len(cache[k].bls) :
             Len(SliceOfRecord(cache[k].stage, cache[k].bls[i]).rows) > 0)
    /\ [](data = Degenerate =>
             /\ Get(cache, OC) = <<>>
             /\ _metalearner_metrics = <<>>
             /\ _best_metalearner = <<>>)
    /\ [][(/\ data = Degenerate
           /\ last_stage_info' # last_stage_info
           /\ Len(last_stage_info') = 1
           /\ last_stage_info'[1].stage.name = "outcome_control"
           /\ last_stage_info'[1].bl # None)
             => /\ pc' = "error"
                /\ error' = EmptySliceError
                /\ _trained_stage_baselearners' = _trained_stage_baselearners]_vars

\* with a treatment column that is 1 in every row, fit trained a propensity and an
\* outcome_treatment candidate and then failed on the empty outcome_control slice
C22_Witness ==
    /\ data = Degenerate
    /\ pc = "error"
    /\ error = EmptySliceError
    /\ last_stage_info[1].stage.name = "outcome_control"
    /\ last_fit_predict.train_data.rows = <<>>
    /\ Len(Get(cache, PR)) = 1
    /\ Len(Get(cache, OT)) = 1

\* number of cached records of stages of the given depth
RecordsOfLevel(level) ==
    LET RECURSIVE Sum(_)
        Sum(i) == IF i = 0 THEN 0
                  ELSE (IF Len(cache[i].stage) = level THEN Len(cache[i].bls) ELSE 0) + Sum(i - 1)
    IN  Sum(Len(cache))

\* the pool entry has handed out every candidate of its stage
Exhausted(entry) ==
    entry.it >= Len(Get(stage_baselearners, entry.stage))

\* a step of the generator that draws from the pool
DrawStep ==
    /\ pc = "train"
    /\ gen_pc \in {"l2", "drain"}
    /\ pool_iter_levels' # pool_iter_levels

\* C23: no second-level submission is made before every level-1 stage has been
\* submitted once; after a level-1 submission at most min(pool size, _n_run_l2)
\* draws, hence second-level submissions, precede the next level-1 submission; a
\* drawn pool entry that is exhausted is removed without a submission, and a drawn
\* entry that is not exhausted hands out its next candidate
C23_SecondLevelInterleaving ==
    /\ [](Len(last_stage_info) = 2 =>
             RecordsOfLevel(1) >= Len(stage_by_levels(stage_baselearners, 1)))
    /\ [](first_run => \A i \in 1..Len(pool_iter_levels) : pool_iter_levels[i].it = 0)
    /\ [](pc = "train" /\ gen_pc = "l2" =>
             /\ ~first_run
             /\ l2_left >= 1
             /\ l2_left <= _n_run_l2
             /\ l2_left <= Len(pool_iter_levels))
    /\ [][(pc = "train" /\ gen_pc = "l1" /\ gen_pc' = "l2") =>
             l2_left' = Min(Len(pool_iter_levels'), _n_run_l2)]_vars
    /\ [][(pc = "train" /\ gen_pc = "l2") =>
             \/ gen_pc' = "l2" /\ l2_left' = l2_left - 1
             \/ gen_pc' # "l2" /\ l2_left = 1
             \/ pc' # "train"]_vars
    /\ [][DrawStep =>
             \E idx \in 1..Len(pool_iter_levels) :
                 IF Exhausted(pool_iter_levels[idx])
                 THEN /\ pool_iter_levels' = Pop(pool_iter_levels, idx)
                      /\ _trained_stage_baselearners' = _trained_stage_baselearners
                      /\ last_stage_info' = last_stage_info
                 ELSE /\ pool_iter_levels' = advance_iter(pool_iter_levels, idx)
                      /\ Len(last_stage_info') = 2
                      /\ full_name(last_stage_info'[2].stage) = pool_iter_levels[idx].stage
                      /\ last_stage_info'[1].bl = pool_iter_levels[idx].bl_l1
                      /\ last_stage_info'[2].bl =
                            Get(stage_baselearners, pool_iter_levels[idx].stage)
                                [pool_iter_levels[idx].it + 1]]_vars

\* between two level-1 submissions: one second-level pair has been trained, two
\* draws are left, and the pool holds an exhausted entry next to pending ones
C23_Witness ==
    /\ pc = "train"
    /\ gen_pc = "l2"
    /\ l2_left = 2
    /\ Len(last_stage_info) = 2
    /\ Len(pool_iter_levels) >= 3
    /\ \E i, j \in 1..Len(pool_iter_levels) :
          Exhausted(pool_iter_levels[i]) /\ ~Exhausted(pool_iter_levels[j])

\* number of cached records of stage fn trained for candidate bl against prerequisite
\* candidate prev
TimesSubmitted(fn, prev, bl) ==
    Cardinality({i \in 1..Len(Get(cache, fn)) :
                    /\ Get(cache, fn)[i].stage_bl = bl
                    /\ Get(cache, fn)[i].prev_stage_bl = prev})

\* every configured level-1 pair and every level-2 triple has been trained exactly once
EverythingSubmittedOnce ==
    \A k \in 1..Len(stage_baselearners) :
        LET fn == stage_baselearners[k].stage
            bls == stage_baselearners[k].bls
        IN  \A c \in 1..Len(bls) :
                IF Len(fn) = 1
                THEN TimesSubmitted(fn, None, bls[c]) = 1
                ELSE \A p \in 1..Len(Get(stage_baselearners, SubSeq(fn, 1, 1))) :
                        TimesSubmitted(fn, Get(stage_baselearners, SubSeq(fn, 1, 1))[p], bls[c]) = 1

\* C24: with no budget the scheduler runs to its end for every sequence of draws:
\* when the training loop of fit is over the generator has returned, the pool is
\* empty and every level-1 pair and every level-2 triple was submitted exactly once
C24_CompleteEnumeration ==
    (timeout = NoTimeout /\ data # Degenerate /\ pc \in {"metric", "best", "done", "error"}) =>
        /\ gen_pc = "end"
        /\ pool_iter_levels = <<>>
        /\ EverythingSubmittedOnce

\* the level-1 stage full names, in key order
Level1Stages ==
    {stage_by_levels(stage_baselearners, 1)[i] :
        i \in 1..Len(stage_by_levels(stage_baselearners, 1))}

\* C25: level-1 submissions are breadth-first round-robin: the records of a level-1
\* stage are those of the first candidates of its configured list, in list order, and
\* when the k-th candidate of a stage is submitted every level-1 stage that has a
\* (k-1)-th candidate has had it submitted
C25_BreadthFirstRoundRobin ==
    /\ [](\A s \in Level1Stages :
             /\ Len(Get(cache, s)) <= Len(Get(stage_baselearners, s))
             /\ \A i \in 1..Len(Get(cache, s)) :
                   Get(cache, s)[i].stage_bl = Get(stage_baselearners, s)[i])
    /\ [](\A s, t \in Level1Stages :
             \A k \in 1..Len(Get(stage_baselearners, s)) :
                 Len(Get(cache, t)) >= k + 1 => Len(Get(cache, s)) >= k)
    /\ [][(/\ pc = "train"
           /\ gen_pc = "l1"
           /\ last_stage_info' # last_stage_info
           /\ last_stage_info'[1].bl # None) =>
             LET t == full_name(last_stage_info'[1].stage)
                 k == Len(Get(cache, t)) + 1
             IN  /\ Len(last_stage_info') = 1
                 /\ k <= Len(Get(stage_baselearners, t))
                 /\ last_stage_info'[1].bl = Get(stage_baselearners, t)[k]
                 /\ \A s \in Level1Stages :
                       Len(Get(stage_baselearners, s)) >= k - 1 =>
                           Len(Get(cache, s)) >= k - 1]_vars

\* the second candidate of the last level-1 stage has just been trained after the
\* second candidates of the other two, with second-level pairs trained in between
C25_Witness ==
    /\ pc = "train"
    /\ Len(last_stage_info) = 1
    /\ last_stage_info[1].bl = 2
    /\ \A s \in Level1Stages : Len(Get(cache, s)) = 2
    /\ RecordsOfLevel(2) >= 1

\* C26: the score table is written only after the last training event: while a
\* training event can still occur the table is empty and nothing is selected, the
\* table changes only in the scoring step, and after the training loop is left no
\* training event happens
C26_TableWrittenAfterTraining ==
    /\ [](pc = "train" => _metalearner_metrics = <<>> /\ _best_metalearner = <<>>)
    /\ [][_metalearner_metrics' # _metalearner_metrics => pc = "metric"]_vars
    /\ [][pc # "train" => /\ pc' # "train"
                          /\ _trained_stage_baselearners' = _trained_stage_baselearners
                          /\ last_stage_info' = last_stage_info
                          /\ last_fit_predict' = last_fit_predict]_vars

\* the budget stopped training before the generator ended and the table was then
\* written with entries of both strategy types
C26_Witness ==
    /\ pc = "best"
    /\ warned
    /\ gen_pc # "end"
    /\ \E e \in 1..Len(_metalearner_metrics) : _metalearner_metrics[e].ml = "XLearner"
    /\ TLearnerEntries >= 2

\* every key and every record of the cache is kept in its place by the step
RecordsKept ==
    /\ Len(_trained_stage_baselearners') >= Len(_trained_stage_baselearners)
    /\ \A k \in 1..Len(_trained_stage_baselearners) :
          /\ _trained_stage_baselearners'[k].stage = _trained_stage_baselearners[k].stage
          /\ Len(_trained_stage_baselearners'[k].bls) >= Len(_trained_stage_baselearners[k].bls)
          /\ \A i \in 1..Len(_trained_stage_baselearners[k].bls) :
                _trained_stage_baselearners'[k].bls[i] = _trained_stage_baselearners[k].bls[i]

\* the step is a training event
TrainingEvent ==
    pc = "train" /\ last_stage_info' # last_stage_info /\ pc' # "error"

\* C27: the cache is append-only: every step keeps every record in its place, a
\* training event appends exactly one record, for the submitted candidate and
\* prerequisite candidate, at the end of the records of its stage, and no other step
\* (assembly, selection, materialisation, predict, create_best_metalearner) changes
\* the cache
C27_CacheAppendOnly ==
    /\ [][RecordsKept]_vars
    /\ [][TrainingEvent =>
             LET last == last_stage_info'[Len(last_stage_info')]
                 now == Get(_trained_stage_baselearners', full_name(last.stage))
             IN  /\ NRecords' = NRecords + 1
                 /\ Len(now) = Len(Get(_trained_stage_baselearners, full_name(last.stage))) + 1
                 /\ now[Len(now)].stage_bl = last.bl
                 /\ now[Len(now)].prev_stage_bl =
                       IF Len(last_stage_info') = 2 THEN last_stage_info'[1].bl ELSE None]_vars
    /\ [][~TrainingEvent => _trained_stage_baselearners' = _trained_stage_baselearners]_vars

\* after a fit that left two records under one stage, predict and
\* create_best_metalearner have been called
C27_Witness ==
    /\ pc = "done"
    /\ \E k \in 1..Len(cache) : Len(cache[k].bls) >= 2
    /\ Len(returned) >= 1
    /\ last_call = [op |-> "predict", raised |-> ""]


\* C29: preparing and training a stage leaves the caller's roles mapping and the
\* shared train split unchanged: no step changes either of them, so at every moment
\* they are the roles handed to fit (with the original treatment and target entries)
\* and the train split of the dataset (with the original target values), and every
\* training event prepares its data from exactly these
C29_CallerRolesAndTrainUnchanged ==
    /\ [][caller_roles' = caller_roles /\ caller_train' = caller_train]_vars
    /\ [](/\ caller_roles = roles_of_fit
          /\ caller_train = train_of(data)
          /\ _get_role(caller_roles, "treatment").col = treatment_column
          /\ _get_role(caller_roles, "target").col = target_column)
    /\ [][TrainingEvent =>
             /\ \A i \in 1..Len(last_fit_predict'.train_data.rows) :
                   \E j \in 1..Len(caller_train'.rows) :
                      /\ caller_train'.rows[j]["x"] = last_fit_predict'.train_data.rows[i]["x"]
                      /\ caller_train'.rows[j] = train_of(data).rows[j]
             /\ \A k \in 1..Len(last_fit_predict'.train_roles) :
                   last_fit_predict'.train_roles[k].key # "treatment"]_vars

\* a second-level stage was trained on a derived target after another second-level
\* stage and the first-level stages had been prepared and trained from the same roles
\* and train split
C29_Witness ==
    /\ pc = "train"
    /\ TrainedDepth(2)
    /\ Len(Get(cache, EC)) >= 1
    /\ Len(Get(cache, ET)) >= 1
    /\ \E i \in 1..Len(last_fit_predict.train_data.rows) : \E j \in 1..Len(caller_train.rows) :
          /\ caller_train.rows[j]["x"] = last_fit_predict.train_data.rows[i]["x"]
          /\ caller_train.rows[j][target_column] #
                last_fit_predict.train_data.rows[i][target_column]


\* C28: a call of the stage trainer for a second-level chain whose prerequisite
\* (stage, candidate) has no record in the cache fails, and leaves the cache exactly as
\* it was: no record is added and no stage key, not even an empty one
C28_MissingPrerequisiteLeavesCache ==
    [][(/\ pc = "idle"
        /\ Len(last_stage_info') = 2
        /\ prev_records(_trained_stage_baselearners,
                        full_name(last_stage_info'[1].stage),
                        last_stage_info'[1].bl) = <<>>)
          => (/\ error' # ""
              /\ _trained_stage_baselearners' = _trained_stage_baselearners)]_vars


\* the held-out prediction of the record the dict of the last call holds under fn
PredUnder(fn) ==
    LET b == last_call.baselearners
        hit == {i \in 1..Len(b) : b[i].stage = fn}
    IN  b[CHOOSE i \in hit : TRUE].rec.pred

\* C30: the held-out prediction of a strategy follows its formula over the held-out
\* predictions of its records: TLearner = outcome_treatment minus outcome_control;
\* XLearner = propensity * effect_treatment + (1 - propensity) * effect_control, with
\* effect_control the record under (outcome_treatment, effect_control) and
\* effect_treatment the record under (outcome_control, effect_treatment); a call with
\* any other strategy type name raises
C30_PredictionFollowsFormula ==
    last_call.op = "_metalearner_predict" =>
        IF last_call.metalearner = "TLearner"
        THEN /\ last_call.raised = ""
             /\ returned = <<PredUnder(<<"outcome_treatment">>) - PredUnder(<<"outcome_control">>)>>
        ELSE IF last_call.metalearner = "XLearner"
        THEN /\ last_call.raised = ""
             /\ returned =
                  <<PredUnder(<<"propensity">>) * PredUnder(<<"outcome_control", "effect_treatment">>)
                    + (1 - PredUnder(<<"propensity">>))
                        * PredUnder(<<"outcome_treatment", "effect_control">>)>>
        ELSE /\ last_call.raised # ""
             /\ returned = <<>>

\* an XLearner prediction with propensity 1 over different effect predictions: it is
\* the effect_treatment prediction
C30_Witness ==
    /\ last_call.op = "_metalearner_predict"
    /\ last_call.metalearner = "XLearner"
    /\ PredUnder(PR) = 1
    /\ PredUnder(ET) = 2
    /\ PredUnder(EC) = 0
    /\ returned = <<2>>


\* C31: in a fit run, when assembly ends without the "no feasible strategy" error the
\* score table holds at least one entry: the step that scores the assembled strategies
\* either fails or leaves a non-empty table, so best-strategy selection starts from a
\* non-empty table, finds a candidate and never fails on an absent one
C31_SelectionHasCandidate ==
    /\ [][(pc = "metric" /\ error' # NoFeasible) => _metalearner_metrics' # <<>>]_vars
    /\ [](pc = "best" =>
            /\ Len(_metalearner_metrics) >= 1
            /\ best_index(_metalearner_metrics, increasing_metric,
                          Len(_metalearner_metrics)) \in 1..Len(_metalearner_metrics))
    /\ [][pc = "best" => error' # "TypeError"]_vars

\* selection is about to run on a table with a single entry, after a run the budget
\* ended as soon as both outcome stages had a record
C31_Witness ==
    /\ pc = "best"
    /\ Len(_metalearner_metrics) = 1
    /\ warned
    /\ NRecords = 2


\* the k-th level-1 submission of a run, read from the configuration alone: the rows
\* of the level-1 candidate lists one after the other, each row in stage order, an
\* exhausted list filled with None
Level1Submission(k) ==
    LET l1 == stage_by_levels(stage_baselearners, 1)
        stage_name == l1[((k - 1) % Len(l1)) + 1]
        row == ((k - 1) \div Len(l1)) + 1
        bls == Get(stage_baselearners, stage_name)
    IN  [stage |-> stage_name, bl |-> IF row <= Len(bls) THEN bls[row] ELSE None]

\* a level-1 pair is submitted
Level1Event ==
    pc = "train" /\ gen_pc = "l1" /\ n_runs' = n_runs + 1

\* C32: the level-1 submissions do not depend on the random draws: the k-th level-1
\* submission of a run is the k-th pair of a sequence the configuration determines,
\* whatever second-level pairs the draws have put before it; a draw changes the pool
\* and submits second-level pairs only, and leaves the number of level-1 submissions
\* and the level-1 records as they are
C32_Level1OrderIndependentOfDraws ==
    /\ [][Level1Event =>
             LET k == RecordsOfLevel(1) + 1
             IN  /\ Len(last_stage_info') = 1
                 /\ full_name(last_stage_info'[1].stage) = Level1Submission(k).stage
                 /\ last_stage_info'[1].bl = Level1Submission(k).bl]_vars
    /\ [][DrawStep =>
             /\ RecordsOfLevel(1)' = RecordsOfLevel(1)
             /\ \A s \in Level1Stages : Get(cache, s)' = Get(cache, s)
             /\ (last_stage_info' # last_stage_info => Len(last_stage_info') = 2)]_vars
    /\ [](pc = "train" /\ gen_pc = "l1" =>
             RecordsOfLevel(1) =
                (round - 1) * Len(stage_by_levels(stage_baselearners, 1)) + l1idx - 1)

\* the fourth level-1 pair is submitted after second-level pairs were trained, with
\* two entries pending in the pool for the draws that follow
C32_Witness ==
    /\ pc = "train"
    /\ Len(last_stage_info) = 1
    /\ RecordsOfLevel(1) >= 4
    /\ RecordsOfLevel(2) >= 1
    /\ Cardinality(Pending) >= 2


\* number of five-stage entries of the score table
XLearnerEntries ==
    Cardinality({e \in 1..Len(_metalearner_metrics) : _metalearner_metrics[e].ml = "XLearner"})

\* the assemblies of a strategy type that _bl_for_ml yields: each the records it uses
Assemblies(ml) ==
    UNION {{assembled[k][i].stage_bls :
                i \in {j \in 1..Len(assembled[k]) : assembled[k][j].ml = ml}} :
           k \in 1..Len(assembled)}

\* two assemblies of one strategy type that differ in a record have different keys
KeysDetermineRecords ==
    pc \in {"best", "done"} =>
        \A m \in 1..Len(MAP_META_TO_STAGES) :
            \A a, b \in Assemblies(MAP_META_TO_STAGES[m].ml) :
                a # b => sorted_sbls(a) # sorted_sbls(b)

\* the product of the sizes of the candidate lists of the five stages
ProductOfListSizes ==
    Len(Get(stage_baselearners, OC)) * Len(Get(stage_baselearners, OT))
        * Len(Get(stage_baselearners, PR)) * Len(Get(stage_baselearners, EC))
        * Len(Get(stage_baselearners, ET))

\* fit has returned or raised
FitEnded == pc \in {"done", "error"}

\* C33 (as stated): two different assemblies of one strategy type never share a
\* score-table key, and after a fit with an unbounded budget, on data every stage can
\* be trained on, the number of five-stage entries is the product of the sizes of the
\* candidate lists of the five stages
C33_FiveStageEntriesAreProduct ==
    /\ KeysDetermineRecords
    /\ (FitEnded /\ timeout = NoTimeout /\ data # Degenerate) =>
          XLearnerEntries = ProductOfListSizes


\* C34 (as stated): after fit the row get_metalearners_ranting ranks first is the
\* strategy best-strategy selection chose, for higher-is-better and lower-is-better
\* metrics and with ties on the extremal score
C34_FirstRankedIsSelected ==
    pc = "done" =>
        LET top == get_metalearners_ranting(_metalearner_metrics)[1]
        IN  \E b \in SelectedEntries :
                /\ _metalearner_metrics[b].ml = top.MetaLearner
                /\ _metalearner_metrics[b].sbls = top.Parameters


\* the generator is about to draw a random index into the pool
AtDraw ==
    pc = "train" /\ (gen_pc = "l2" \/ (gen_pc = "drain" /\ Len(pool_iter_levels) > 0))

\* C35: the scheduler never draws from an empty pool: whenever a draw is due, inside
\* the level-1 loop or in the final loop, the pool holds at least one entry; inside the
\* level-1 loop the draws still to make never outnumber the entries, each draw
\* removing at most one; the drawn index is a position of the pool, and no draw fails
\* for want of an entry
C35_NeverDrawFromEmptyPool ==
    /\ [](AtDraw => Len(pool_iter_levels) >= 1)
    /\ [](pc = "train" /\ gen_pc = "l2" =>
             /\ l2_left \in 1.._n_run_l2
             /\ Len(pool_iter_levels) >= l2_left)
    /\ [][AtDraw =>
             /\ Len(pool_iter_levels') >= Len(pool_iter_levels) - 1
             /\ \E idx \in 1..Len(pool_iter_levels) :
                   \/ pool_iter_levels' = Pop(pool_iter_levels, idx)
                   \/ pool_iter_levels' = advance_iter(pool_iter_levels, idx)]_vars
    /\ [](error # "ValueError")

\* the last draw after a level-1 submission is due with a single entry left in the
\* pool, after second-level pairs have been trained
C35_Witness ==
    /\ pc = "train"
    /\ gen_pc = "l2"
    /\ l2_left = 1
    /\ Len(pool_iter_levels) = 1
    /\ RecordsOfLevel(2) >= 1

====
